---- MODULE Spec2Model ----
(***************************************************************************)
(* A model of platypush's sound plugin (platypush/plugins/sound.py): the   *)
(* playback and recording state machines of SoundPlugin, and the calls     *)
(* play (bounded queue, pre-fill loop, producer loop, PortAudio callback), *)
(* record and recordplay.                                                  *)
(*                                                                         *)
(* Threads.  Every call runs in the thread of its caller and blocks there  *)
(* until the session ends, so stop_playback, pause_playback and a second   *)
(* call come from other threads.  The callback of an open stream runs in   *)
(* the audio host's thread.  One action is one atomic step of one thread:  *)
(* at most one access to the shared state (a state under its lock, an      *)
(* Event, the session's Queue), together with the thread-local code        *)
(* around it.                                                              *)
(*                                                                         *)
(* Events.  threading.Event.wait() returns at once when the flag is set    *)
(* and blocks otherwise; set() sets the flag and releases every thread     *)
(* blocked at that moment; clear() resets the flag and releases nobody.    *)
(*                                                                         *)
(* Time.  Audio time is counted in frames: a block is `blocksize` frames,  *)
(* a duration is duration*samplerate frames.  time.sleep and the timeout   *)
(* of Queue.put order nothing between threads, so a sleep is no step of    *)
(* its own and a timeout may expire whenever the queue is full.            *)
(***************************************************************************)
EXTENDS Integers, Sequences, FiniteSets, TLC

\* ---------------------------------------------------------------- bounds

\* Number of play calls made in one behaviour.
MaxCalls == 2
\* Largest bufsize argument tried (0 is tried too: Queue(maxsize=0)).
MaxBuf == 2
\* Largest number of blocks a sound file holds.
MaxFileBlocks == 2
\* Largest duration*samplerate of a sound descriptor, in frames.
MaxDur == 5
\* Blocks one session produces at most (a sound without duration never ends).
MaxBlocks == MaxBuf + 1
\* pause_playback and pause_recording calls that have written the state and
\* not yet set the Event.
MaxPending == 1
\* Input blocks the host delivers to one record or recordplay session.
MaxInput == 2
\* The blocksize argument, in frames.
BlockSize == 2

Calls == 1..MaxCalls
\* sound.duration is None
NoDuration == -1
Durations == {NoDuration} \cup (0..MaxDur)
NoBlock == [n |-> 0, len |-> 0]

Min(a, b) == IF a <= b THEN a ELSE b

\* ----------------------------------------------------------------- state

VARIABLES
    playback_state,            \* self.playback_state
    playback_paused_changed,   \* self.playback_paused_changed (Event flag)
    pb_set_pending,            \* pause_playback calls between the state write and
                               \* set(), counted by the state they wrote
    recording_state,           \* self.recording_state
    recording_paused_changed,  \* self.recording_paused_changed (Event flag)
    rec_set_pending,           \* the same for pause_recording
    ses                        \* per call: arguments, locals, position, stream, callback

pb == <<playback_state, playback_paused_changed, pb_set_pending>>
rec == <<recording_state, recording_paused_changed, rec_set_pending>>
vars == <<playback_state, playback_paused_changed, pb_set_pending,
          recording_state, recording_paused_changed, rec_set_pending, ses>>

IdleCall ==
    [kind |-> "none", pc |-> "idle", result |-> "none",
     file |-> FALSE, sounds |-> FALSE, bufsize |-> 0, blocksize |-> 0,
     duration |-> NoDuration,
     limit |-> 0,        \* blocks of the session that are followed
     f |-> 0,            \* blocks left to read from the sound file
     f_open |-> FALSE,   \* f is an open SoundFile
     t |-> 0,            \* synthesis cursor, in frames
     t_start |-> 0,      \* arguments of the last sound.get_wave call
     t_end |-> 0,
     i |-> 0,            \* pre-fill iterations completed
     n |-> 0,            \* blocks read or synthesized so far
     data |-> NoBlock,   \* the block held by the producer
     q |-> <<>>,         \* queue.Queue(maxsize=bufsize)
     enq |-> 0,          \* frames put on the queue so far
     enqueued |-> <<>>,  \* record: numbers of the blocks put on the queue
     written |-> <<>>,   \* record: numbers of the blocks written to the file
     elapsed |-> FALSE,  \* record: the duration has passed since
                         \* recording_started_time
     opens |-> 0,        \* record: times the file was opened,
     closes |-> 0,       \* and closed
     stream |-> "none",  \* none | active | aborted | closed
     completed |-> FALSE,\* completed_callback_event
     out |-> 0,          \* number of the block last copied to outdata
     stop_out |-> -1,    \* blocks copied since stop_playback() was called on
                         \* the open stream (-1: not called, or the stream
                         \* is closed again; 2: two or more)
     stop_in |-> -1,     \* blocks enqueued by the producer loop since then
     cb |-> "idle"]      \* position of the callback invocation in flight

NonePending == [w \in {"PAUSED", "PLAYING", "RECORDING"} |-> 0]
Pending(p) == p["PAUSED"] + p["PLAYING"] + p["RECORDING"]

Init ==
    /\ playback_state = "STOPPED"
    /\ playback_paused_changed = FALSE
    /\ pb_set_pending = NonePending
    /\ recording_state = "STOPPED"
    /\ recording_paused_changed = FALSE
    /\ rec_set_pending = NonePending
    /\ ses = [c \in Calls |-> IdleCall]

Set(c, r) == ses' = [ses EXCEPT ![c] = r]
PlayAt(c, p) == ses[c].kind = "play" /\ ses[c].pc = p

\* ------------------------------------------------- the state controller

\* _get_playback_state
GetPlaybackState == playback_state

\* start_playback: an unconditional write
StartPlaybackState(s) == "PLAYING"

\* stop_playback: an unconditional write; the Event is not touched
StopPlaybackState(s) == "STOPPED"

\* A toggle that takes every state but PAUSED to PAUSED
ToggleFromAnyState(s) == IF s = "PAUSED" THEN "PLAYING" ELSE "PAUSED"

\* pause_playback, the part under the lock
TogglePlaybackState(s) ==
    IF s = "PAUSED" THEN "PLAYING"
    ELSE IF s = "PLAYING" THEN "PAUSED"
    ELSE s

\* pause_playback returns before set() when the state was neither
PauseSignals(s) == s \in {"PAUSED", "PLAYING"}

\* The count of blocks after a stop: none before the stop, then 0, 1, and
\* 2 for two or more
CountAfterStop(k) == IF k < 0 THEN k ELSE IF k < 2 THEN k + 1 ELSE 2

\* A play session with its stream open notes that stop_playback was called
NoteStop(r) ==
    IF r.kind = "play" /\ r.stream \in {"active", "aborted"}
    THEN [r EXCEPT !.stop_out = 0, !.stop_in = 0]
    ELSE r

\* A call's own step that calls stop_playback: the other sessions note it
SetStopping(c, r) ==
    ses' = [d \in Calls |-> IF d = c THEN r ELSE NoteStop(ses[d])]

\* A stop_playback that stops the recording as well
StopPlaybackAndRecording ==
    /\ playback_state' = "STOPPED"
    /\ recording_state' = "STOPPED"
    /\ ses' = [c \in Calls |-> NoteStop(ses[c])]
    /\ UNCHANGED <<playback_paused_changed, pb_set_pending,
                   recording_paused_changed, rec_set_pending>>

\* stop_playback (lines 694-698)
StopPlayback ==
    /\ playback_state' = StopPlaybackState(playback_state)
    /\ ses' = [c \in Calls |-> NoteStop(ses[c])]
    /\ UNCHANGED <<rec, playback_paused_changed, pb_set_pending>>

\* pause_playback, lines 702-708: the state is toggled under the lock; the
\* call goes on to line 711 unless the state was STOPPED
PausePlayback ==
    /\ Pending(pb_set_pending) + Pending(rec_set_pending) < MaxPending
    /\ playback_state' = TogglePlaybackState(playback_state)
    /\ pb_set_pending' =
          IF PauseSignals(playback_state)
          THEN [pb_set_pending EXCEPT
                  ![TogglePlaybackState(playback_state)] = @ + 1]
          ELSE pb_set_pending
    /\ UNCHANGED <<rec, playback_paused_changed, ses>>

\* Event.set() sets the flag and notifies every thread blocked in wait();
\* a notified thread returns from wait() to the loop test around it,
\* whatever happens to the flag afterwards.  Only play waits on
\* playback_paused_changed (lines 340, 411, 431); record and recordplay wait
\* on recording_paused_changed (lines 538, 566, 649, 679).
Notified(r) ==
    [r EXCEPT !.pc = IF @ = "pf_blocked" THEN "pf_pause"
                     ELSE IF @ = "lp_blocked" THEN "lp_pause"
                     ELSE IF @ = "rc_blocked" THEN "rc_pause"
                     ELSE IF @ = "rp_blocked" THEN "rp_pause"
                     ELSE @,
              !.cb = IF @ = "blocked" THEN "pause" ELSE @]

WaitsOnPlayback(r) == r.kind = "play"

\* pause_playback, line 711: playback_paused_changed.set()
PausePlaybackSet(w) ==
    /\ pb_set_pending[w] > 0
    /\ pb_set_pending' = [pb_set_pending EXCEPT ![w] = @ - 1]
    /\ playback_paused_changed' = TRUE
    /\ ses' = [c \in Calls |->
                 IF WaitsOnPlayback(ses[c]) THEN Notified(ses[c]) ELSE ses[c]]
    /\ UNCHANGED <<rec, playback_state>>

\* _get_recording_state
GetRecordingState == recording_state

\* start_recording: an unconditional write
StartRecordingState(s) == "RECORDING"

\* A stop that resumes a paused recording
StopUnlessPaused(s) == IF s = "PAUSED" THEN "RECORDING" ELSE "STOPPED"

\* stop_recording: an unconditional write; the Event is not touched
StopRecordingState(s) == "STOPPED"

\* pause_recording, the part under the lock
ToggleRecordingState(s) ==
    IF s = "PAUSED" THEN "RECORDING"
    ELSE IF s = "RECORDING" THEN "PAUSED"
    ELSE s

\* stop_recording (lines 717-721)
StopRecording ==
    /\ recording_state' = StopRecordingState(recording_state)
    /\ UNCHANGED <<pb, recording_paused_changed, rec_set_pending, ses>>

\* pause_recording, lines 725-731
PauseRecording ==
    /\ Pending(pb_set_pending) + Pending(rec_set_pending) < MaxPending
    /\ recording_state' = ToggleRecordingState(recording_state)
    /\ rec_set_pending' =
          IF recording_state \in {"PAUSED", "RECORDING"}
          THEN [rec_set_pending EXCEPT
                  ![ToggleRecordingState(recording_state)] = @ + 1]
          ELSE rec_set_pending
    /\ UNCHANGED <<pb, recording_paused_changed, ses>>

\* pause_recording, line 734: recording_paused_changed.set()
PauseRecordingSet(w) ==
    /\ rec_set_pending[w] > 0
    /\ rec_set_pending' = [rec_set_pending EXCEPT ![w] = @ - 1]
    /\ recording_paused_changed' = TRUE
    /\ ses' = [c \in Calls |->
                 IF WaitsOnPlayback(ses[c]) THEN ses[c] ELSE Notified(ses[c])]
    /\ UNCHANGED <<pb, recording_state>>

\* What the other calls of the plugin do to the two machines while one call
\* is followed: start_playback (lines 378 and 667),
\* playback_paused_changed.clear() (lines 320 and 627), start_recording
\* (lines 556 and 666) and recording_paused_changed.clear() (lines 510 and
\* 628); their stop_playback and stop_recording are StopPlayback and
\* StopRecording.
OtherStartPlayback ==
    /\ playback_state' = StartPlaybackState(playback_state)
    /\ UNCHANGED <<rec, playback_paused_changed, pb_set_pending, ses>>

OtherClearPlayback ==
    /\ playback_paused_changed' = FALSE
    /\ UNCHANGED <<rec, playback_state, pb_set_pending, ses>>

OtherStartRecording ==
    /\ recording_state' = StartRecordingState(recording_state)
    /\ UNCHANGED <<pb, recording_paused_changed, rec_set_pending, ses>>

OtherClearRecording ==
    /\ recording_paused_changed' = FALSE
    /\ UNCHANGED <<pb, recording_state, rec_set_pending, ses>>

\* ------------------------------------------------------------ the queue

\* A queue that takes one block more than maxsize
QueueFullOneLate(s) == s.bufsize > 0 /\ Len(s.q) > s.bufsize

\* queue.Queue: full iff 0 < maxsize <= qsize
QueueFull(s) == s.bufsize > 0 /\ Len(s.q) >= s.bufsize

\* ----------------------------------------------------------- the source

\* A cursor advanced by a block whatever the duration
NextTUnclamped(s) == s.t + s.blocksize

\* End of the next synthesized block (lines 400-401 and 441-442)
NextT(s) ==
    IF s.duration # NoDuration
    THEN Min(s.t + s.blocksize, s.duration)
    ELSE s.t + s.blocksize

\* The loop breaks after this pass (lines 394-395, 407-408, 435-436, 448-449)
Exhausted(s) ==
    IF s.f_open
    THEN s.f = 0
    ELSE s.duration # NoDuration /\ NextT(s) >= s.duration

\* One pass of the body shared by the pre-fill loop (392-405) and the
\* producer loop (433-446): the session after the read or the synthesis.
\* get_wave returns int((t_end - t_start) * samplerate) frames.
Produce(s) ==
    IF s.f_open
    THEN IF s.f = 0
         THEN [s EXCEPT !.data = NoBlock]
         ELSE [s EXCEPT !.f = @ - 1, !.n = @ + 1,
                        !.data = [n |-> s.n + 1, len |-> s.blocksize]]
    ELSE IF NextT(s) > s.t
         THEN [s EXCEPT !.t_start = s.t, !.t_end = NextT(s),
                        !.t = NextT(s), !.n = @ + 1,
                        !.data = [n |-> s.n + 1, len |-> NextT(s) - s.t]]
         ELSE [s EXCEPT !.t_start = s.t, !.t_end = NextT(s),
                        !.t = NextT(s), !.data = NoBlock]

\* The bound on the blocks of one session (the model's, not the code's)
MayProduce(s) == s.n < s.limit

\* ------------------------------------------------------------- play

\* Line 305: `not file and not sounds` is the whole argument check
InvalidPlayArgs(a) == ~a.file /\ ~a.sounds

\* Lines 305-311: the argument check and the first read of the state.
\* a.blocks is the number of blocks the file holds, a.duration the
\* duration of sounds[0] in frames.
PlayCall(c, a) ==
    /\ ses[c].pc = "idle"
    /\ \A d \in Calls : d < c => ses[d].pc # "idle"
    /\ IF InvalidPlayArgs(a)
       THEN Set(c, [ses[c] EXCEPT !.kind = "play", !.pc = "done",
                                  !.file = a.file, !.sounds = a.sounds,
                                  !.result = "invalid"])
       ELSE Set(c, [ses[c] EXCEPT
                !.kind = "play", !.file = a.file, !.sounds = a.sounds,
                !.bufsize = a.bufsize, !.blocksize = a.blocksize,
                !.f = a.blocks, !.duration = a.duration, !.limit = a.limit,
                !.pc = IF GetPlaybackState # "STOPPED" /\ a.file
                       THEN "stop_prior" ELSE "clear"])
    /\ UNCHANGED <<rec, playback_state, playback_paused_changed, pb_set_pending>>

\* Lines 312-315: stop_playback, then time.sleep(2)
PlayStopPrior(c) ==
    /\ PlayAt(c, "stop_prior")
    /\ playback_state' = StopPlaybackState(playback_state)
    /\ SetStopping(c, [ses[c] EXCEPT !.pc = "clear"])
    /\ UNCHANGED <<rec, playback_paused_changed, pb_set_pending>>

\* Lines 317-333: playback_paused_changed.clear() and the session's locals
PlayClear(c) ==
    /\ PlayAt(c, "clear")
    /\ playback_paused_changed' = FALSE
    /\ Set(c, [ses[c] EXCEPT !.pc = "start", !.q = <<>>, !.t = 0])
    /\ UNCHANGED <<rec, playback_state, pb_set_pending>>

\* Lines 391-408: the head of a pre-fill iteration, up to the pause check
\* of line 410 or out of the loop
PrefillHead(s) ==
    IF s.i >= s.bufsize
    THEN [s EXCEPT !.pc = "open_stream", !.data = NoBlock]
    ELSE [Produce(s) EXCEPT
            !.pc = IF Exhausted(s) THEN "open_stream" ELSE "pf_pause"]

\* Lines 368-370: sf.SoundFile(file) raises
PlayOpenFileFails(c) ==
    /\ PlayAt(c, "start")
    /\ ses[c].file
    /\ Set(c, [ses[c] EXCEPT !.pc = "finally", !.result = "error"])
    /\ UNCHANGED <<rec, playback_state, playback_paused_changed, pb_set_pending>>

\* Lines 368-408: the file is opened when one is given, start_playback, the
\* sounds are parsed, and the first pre-fill iteration begins
PlayStart(c) ==
    /\ PlayAt(c, "start")
    /\ playback_state' = StartPlaybackState(playback_state)
    /\ Set(c, PrefillHead([ses[c] EXCEPT !.f_open = ses[c].file]))
    /\ UNCHANGED <<rec, playback_paused_changed, pb_set_pending>>

\* Lines 368-388: as PlayStart, but json.loads(sounds) or Sound(**sounds[i])
\* raises after start_playback
PlayStartSoundsFail(c) ==
    /\ PlayAt(c, "start")
    /\ ses[c].sounds
    /\ playback_state' = StartPlaybackState(playback_state)
    /\ Set(c, [ses[c] EXCEPT !.f_open = ses[c].file, !.pc = "finally",
                             !.result = "error"])
    /\ UNCHANGED <<rec, playback_paused_changed, pb_set_pending>>

\* Line 410
PrefillPause(c) ==
    /\ PlayAt(c, "pf_pause")
    /\ Set(c, [ses[c] EXCEPT !.pc = IF GetPlaybackState = "PAUSED"
                                    THEN "pf_wait" ELSE "pf_put"])
    /\ UNCHANGED <<rec, playback_state, playback_paused_changed, pb_set_pending>>

\* Line 411: Event.wait() returns at once when the flag is set, and blocks
\* until the next set() otherwise
PrefillWait(c) ==
    /\ PlayAt(c, "pf_wait")
    /\ Set(c, [ses[c] EXCEPT !.pc = IF playback_paused_changed
                                    THEN "pf_pause" ELSE "pf_blocked"])
    /\ UNCHANGED <<rec, playback_state, playback_paused_changed, pb_set_pending>>

\* Lines 413-416 and 391-408: the stop check, q.put_nowait(data), and the
\* head of the next iteration
PrefillPut(c) ==
    /\ PlayAt(c, "pf_put")
    /\ LET s == ses[c] IN
       IF GetPlaybackState = "STOPPED"
       THEN Set(c, [s EXCEPT !.pc = "finally", !.result = "aborted"])
       ELSE IF QueueFull(s)
       THEN Set(c, [s EXCEPT !.pc = "finally", !.result = "prefill_full"])
       ELSE Set(c, PrefillHead([s EXCEPT !.q = Append(@, s.data),
                                         !.enq = @ + s.data.len,
                                         !.data = NoBlock, !.i = @ + 1]))
    /\ UNCHANGED <<rec, playback_state, playback_paused_changed, pb_set_pending>>

\* Lines 418-424: the stream is created and entered
PlayOpenStream(c) ==
    /\ PlayAt(c, "open_stream")
    /\ Set(c, [ses[c] EXCEPT !.stream = "active", !.pc = "lp_pause"])
    /\ UNCHANGED <<rec, playback_state, playback_paused_changed, pb_set_pending>>

\* Lines 418-422: the stream constructor raises (sd.PortAudioError)
PlayOpenStreamFails(c) ==
    /\ PlayAt(c, "open_stream")
    /\ Set(c, [ses[c] EXCEPT !.pc = "finally", !.result = "error"])
    /\ UNCHANGED <<rec, playback_state, playback_paused_changed, pb_set_pending>>

\* Lines 430-449: the pause check of the producer loop and, when the state is
\* not PAUSED, the read or the synthesis of the next block
LoopPause(c) ==
    /\ PlayAt(c, "lp_pause")
    /\ LET s == ses[c] IN
       IF GetPlaybackState = "PAUSED"
       THEN Set(c, [s EXCEPT !.pc = "lp_wait"])
       ELSE /\ MayProduce(s)
            /\ Set(c, [Produce(s) EXCEPT
                        !.pc = IF Exhausted(s) THEN "wait_done" ELSE "lp_stop"])
    /\ UNCHANGED <<rec, playback_state, playback_paused_changed, pb_set_pending>>

\* Line 431
LoopWait(c) ==
    /\ PlayAt(c, "lp_wait")
    /\ Set(c, [ses[c] EXCEPT !.pc = IF playback_paused_changed
                                    THEN "lp_pause" ELSE "lp_blocked"])
    /\ UNCHANGED <<rec, playback_state, playback_paused_changed, pb_set_pending>>

\* Lines 451-452
LoopStopCheck(c) ==
    /\ PlayAt(c, "lp_stop")
    /\ Set(c, IF GetPlaybackState = "STOPPED"
              THEN [ses[c] EXCEPT !.pc = "close_stream", !.result = "aborted"]
              ELSE [ses[c] EXCEPT !.pc = "lp_put"])
    /\ UNCHANGED <<rec, playback_state, playback_paused_changed, pb_set_pending>>

\* Line 455: q.put(data, timeout) finds room
LoopPut(c) ==
    /\ PlayAt(c, "lp_put")
    /\ ~QueueFull(ses[c])
    /\ Set(c, [ses[c] EXCEPT !.q = Append(@, ses[c].data), !.data = NoBlock,
                             !.enq = @ + ses[c].data.len,
                             !.stop_in = CountAfterStop(@), !.pc = "lp_pause"])
    /\ UNCHANGED <<rec, playback_state, playback_paused_changed, pb_set_pending>>

\* Lines 455-456: the timeout expires with the queue still full
LoopPutTimeout(c) ==
    /\ PlayAt(c, "lp_put")
    /\ QueueFull(ses[c])
    /\ Set(c, [ses[c] EXCEPT !.pc = "lp_full"])
    /\ UNCHANGED <<rec, playback_state, playback_paused_changed, pb_set_pending>>

\* A handler that swallows queue.Full in every state
LoopFullRetries(c) ==
    /\ ses[c].kind = "play" /\ ses[c].pc = "lp_full"
    /\ ses' = [ses EXCEPT ![c] = [ses[c] EXCEPT !.pc = "lp_pause",
                                                !.data = NoBlock]]
    /\ UNCHANGED <<pb, rec>>

\* Lines 457-458: queue.Full is raised again unless the state is PAUSED
LoopFull(c) ==
    /\ PlayAt(c, "lp_full")
    /\ Set(c, IF GetPlaybackState # "PAUSED"
              THEN [ses[c] EXCEPT !.pc = "close_stream", !.result = "full"]
              ELSE [ses[c] EXCEPT !.pc = "lp_pause", !.data = NoBlock])
    /\ UNCHANGED <<rec, playback_state, playback_paused_changed, pb_set_pending>>

\* Line 460: completed_callback_event.wait()
PlayWaitCompleted(c) ==
    /\ PlayAt(c, "wait_done")
    /\ ses[c].completed
    /\ Set(c, [ses[c] EXCEPT !.pc = "close_stream", !.result = "ok"])
    /\ UNCHANGED <<rec, playback_state, playback_paused_changed, pb_set_pending>>

\* Line 424: leaving `with stream` closes it, on return and on an exception.
\* The host ends the callback thread: an invocation in flight returns or is
\* cancelled, and no other begins.
PlayCloseStream(c) ==
    /\ PlayAt(c, "close_stream")
    /\ Set(c, [ses[c] EXCEPT !.stream = "closed", !.cb = "idle",
                             !.stop_out = -1, !.stop_in = -1,
                             !.pc = "finally"])
    /\ UNCHANGED <<rec, playback_state, playback_paused_changed, pb_set_pending>>

\* A finally clause without stop_playback()
PlayFinallyWithoutStop(c) ==
    /\ ses[c].kind = "play" /\ ses[c].pc = "finally"
    /\ ses' = [ses EXCEPT ![c] = [ses[c] EXCEPT !.f_open = FALSE, !.pc = "done"]]
    /\ UNCHANGED <<pb, rec>>

\* Lines 465-470: f.close() and stop_playback(), then the call returns or
\* the exception that was not queue.Full propagates
PlayFinally(c) ==
    /\ PlayAt(c, "finally")
    /\ playback_state' = StopPlaybackState(playback_state)
    /\ SetStopping(c, [ses[c] EXCEPT !.f_open = FALSE, !.pc = "done"])
    /\ UNCHANGED <<rec, playback_paused_changed, pb_set_pending>>

\* ------------------------------------------- play's audio_callback

\* A callback that returns where it should raise sd.CallbackAbort
ReturnWithoutAbort(s) == [s EXCEPT !.cb = "idle"]

\* The callback raises sd.CallbackAbort: the stream becomes inactive and
\* finished_callback sets completed_callback_event
Abort(s) ==
    [s EXCEPT !.cb = "idle", !.completed = TRUE,
              !.stream = IF @ = "active" THEN "aborted" ELSE @]

\* Lines 335-337: the host invokes the callback, which reads the state
CallbackInvoke(c) ==
    /\ ses[c].kind = "play"
    /\ ses[c].stream = "active"
    /\ ses[c].cb = "idle"
    /\ Set(c, IF GetPlaybackState = "STOPPED"
              THEN Abort(ses[c])
              ELSE [ses[c] EXCEPT !.cb = "pause"])
    /\ UNCHANGED <<rec, playback_state, playback_paused_changed, pb_set_pending>>

\* Line 339
CallbackPause(c) ==
    /\ ses[c].kind = "play"
    /\ ses[c].cb = "pause"
    /\ Set(c, [ses[c] EXCEPT !.cb = IF GetPlaybackState = "PAUSED"
                                    THEN "wait" ELSE "get"])
    /\ UNCHANGED <<rec, playback_state, playback_paused_changed, pb_set_pending>>

\* Line 340
CallbackWait(c) ==
    /\ ses[c].kind = "play"
    /\ ses[c].cb = "wait"
    /\ Set(c, [ses[c] EXCEPT !.cb = IF playback_paused_changed
                                    THEN "pause" ELSE "blocked"])
    /\ UNCHANGED <<rec, playback_state, playback_paused_changed, pb_set_pending>>

\* Lines 342-346: the host reports an output underflow; the callback returns
\* without taking a block
CallbackUnderflow(c) ==
    /\ ses[c].kind = "play"
    /\ ses[c].cb = "get"
    /\ Set(c, [ses[c] EXCEPT !.cb = "idle"])
    /\ UNCHANGED <<rec, playback_state, playback_paused_changed, pb_set_pending>>

\* A callback that takes the newest block of the queue
CallbackGetNewest(c) ==
    /\ ses[c].kind = "play"
    /\ ses[c].cb = "get"
    /\ LET s == ses[c] IN
       IF s.q = <<>>
       THEN ses' = [ses EXCEPT ![c] = [s EXCEPT !.cb = "idle", !.completed = TRUE,
                      !.stream = IF @ = "active" THEN "aborted" ELSE @]]
       ELSE ses' = [ses EXCEPT ![c] = [s EXCEPT
                      !.q = SubSeq(@, 1, Len(@) - 1),
                      !.out = s.q[Len(s.q)].n, !.cb = "idle"]]
    /\ UNCHANGED <<pb, rec>>

\* Lines 348-364: q.get_nowait(); the block is copied to outdata, or the
\* queue is empty and the callback raises sd.CallbackAbort
CallbackGet(c) ==
    /\ ses[c].kind = "play"
    /\ ses[c].cb = "get"
    /\ LET s == ses[c] IN
       IF s.q = <<>>
       THEN Set(c, Abort(s))
       ELSE Set(c, [s EXCEPT !.q = Tail(@), !.out = Head(s.q).n,
                             !.stop_out = CountAfterStop(@), !.cb = "idle"])
    /\ UNCHANGED <<rec, playback_state, playback_paused_changed, pb_set_pending>>

\* ------------------------------------------------------------ record

RecordAt(c, p) == ses[c].kind = "record" /\ ses[c].pc = p

\* Line 506: the first read of the recording state.  d is NoDuration when
\* duration is None.
RecordCall(c, d) ==
    /\ ses[c].pc = "idle"
    /\ \A e \in Calls : e < c => ses[e].pc # "idle"
    /\ Set(c, [ses[c] EXCEPT
             !.kind = "record", !.duration = d, !.blocksize = BlockSize,
             !.pc = IF GetRecordingState # "STOPPED"
                    THEN "rc_stop_prior" ELSE "rc_clear"])
    /\ UNCHANGED <<pb, rec>>

\* Lines 507-508: stop_recording, then time.sleep(2)
RecordStopPrior(c) ==
    /\ RecordAt(c, "rc_stop_prior")
    /\ recording_state' = StopRecordingState(recording_state)
    /\ Set(c, [ses[c] EXCEPT !.pc = "rc_clear"])
    /\ UNCHANGED <<pb, recording_paused_changed, rec_set_pending>>

\* Lines 510-534: recording_paused_changed.clear() and the call's locals
RecordClear(c) ==
    /\ RecordAt(c, "rc_clear")
    /\ recording_paused_changed' = FALSE
    /\ Set(c, [ses[c] EXCEPT !.pc = "rc_open", !.q = <<>>])
    /\ UNCHANGED <<pb, recording_state, rec_set_pending>>

\* Lines 551-555: the file is created and the input stream entered
RecordOpen(c) ==
    /\ RecordAt(c, "rc_open")
    /\ Set(c, [ses[c] EXCEPT !.f_open = TRUE, !.opens = @ + 1,
                             !.stream = "active", !.pc = "rc_start"])
    /\ UNCHANGED <<pb, rec>>

\* Lines 551-555: sf.SoundFile raises, or sd.InputStream raises and the
\* `with` of the file closes it
RecordOpenFails(c) ==
    /\ RecordAt(c, "rc_open")
    /\ \E opened \in BOOLEAN :
         Set(c, [ses[c] EXCEPT !.opens = IF opened THEN @ + 1 ELSE @,
                               !.closes = IF opened THEN @ + 1 ELSE @,
                               !.pc = "rc_finally", !.result = "error"])
    /\ UNCHANGED <<pb, rec>>

\* Line 556
RecordStart(c) ==
    /\ RecordAt(c, "rc_start")
    /\ recording_state' = StartRecordingState(recording_state)
    /\ Set(c, [ses[c] EXCEPT !.pc = "rc_loop"])
    /\ UNCHANGED <<pb, recording_paused_changed, rec_set_pending>>

\* Lines 560-564: time.time() passes recording_started_time + duration
RecordClock(c) ==
    /\ ses[c].kind = "record"
    /\ ses[c].pc \in {"rc_loop", "rc_pause", "rc_wait", "rc_blocked", "rc_get"}
    /\ ses[c].duration # NoDuration
    /\ ~ses[c].elapsed
    /\ Set(c, [ses[c] EXCEPT !.elapsed = TRUE])
    /\ UNCHANGED <<pb, rec>>

\* Lines 562-564: the loop ends when the state is STOPPED or the duration
\* has elapsed
RecordLoop(c) ==
    /\ RecordAt(c, "rc_loop")
    /\ Set(c, IF GetRecordingState = "STOPPED" \/ ses[c].elapsed
              THEN [ses[c] EXCEPT !.pc = "rc_close", !.result = "ok"]
              ELSE [ses[c] EXCEPT !.pc = "rc_pause"])
    /\ UNCHANGED <<pb, rec>>

\* Line 565
RecordPause(c) ==
    /\ RecordAt(c, "rc_pause")
    /\ Set(c, [ses[c] EXCEPT !.pc = IF GetRecordingState = "PAUSED"
                                    THEN "rc_wait" ELSE "rc_get"])
    /\ UNCHANGED <<pb, rec>>

\* Line 566
RecordWait(c) ==
    /\ RecordAt(c, "rc_wait")
    /\ Set(c, [ses[c] EXCEPT !.pc = IF recording_paused_changed
                                    THEN "rc_pause" ELSE "rc_blocked"])
    /\ UNCHANGED <<pb, rec>>

\* A consumer that takes the newest block of the queue
RecordGetNewest(c) ==
    /\ ses[c].kind = "record" /\ ses[c].pc = "rc_get"
    /\ ses[c].q # <<>>
    /\ ses' = [ses EXCEPT ![c] = [ses[c] EXCEPT
                 !.q = SubSeq(@, 1, Len(@) - 1), !.n = @ + 1,
                 !.written = Append(@, ses[c].q[Len(ses[c].q)].n),
                 !.pc = "rc_loop"]]
    /\ UNCHANGED <<pb, rec>>

\* Lines 574-575: q.get returns a block, which is written to the file
RecordGet(c) ==
    /\ RecordAt(c, "rc_get")
    /\ ses[c].q # <<>>
    /\ Set(c, [ses[c] EXCEPT !.q = Tail(@), !.n = @ + 1,
                             !.written = Append(@, Head(ses[c].q).n),
                             !.pc = "rc_loop"])
    /\ UNCHANGED <<pb, rec>>

\* Lines 574-575: q.get returns a block and f.write(data) raises
RecordWriteFails(c) ==
    /\ RecordAt(c, "rc_get")
    /\ ses[c].q # <<>>
    /\ Set(c, [ses[c] EXCEPT !.q = Tail(@), !.pc = "rc_close",
                             !.result = "error"])
    /\ UNCHANGED <<pb, rec>>

\* Lines 568-574: with a duration, q.get has the time left as its timeout
\* and raises queue.Empty when the duration has passed
RecordGetTimeout(c) ==
    /\ RecordAt(c, "rc_get")
    /\ ses[c].duration # NoDuration
    /\ ses[c].elapsed
    /\ ses[c].q = <<>>
    /\ Set(c, [ses[c] EXCEPT !.pc = "rc_close", !.result = "empty"])
    /\ UNCHANGED <<pb, rec>>

\* Lines 551-577: leaving the two `with` blocks closes the stream and the file
RecordCloseStream(c) ==
    /\ RecordAt(c, "rc_close")
    /\ Set(c, [ses[c] EXCEPT !.stream = "closed", !.cb = "idle",
                             !.f_open = FALSE, !.closes = @ + 1,
                             !.pc = "rc_finally"])
    /\ UNCHANGED <<pb, rec>>

\* Lines 581-582: stop_recording(), then the call returns or the exception
\* that was not queue.Empty propagates
RecordFinally(c) ==
    /\ RecordAt(c, "rc_finally")
    /\ recording_state' = StopRecordingState(recording_state)
    /\ Set(c, [ses[c] EXCEPT !.pc = "done"])
    /\ UNCHANGED <<pb, recording_paused_changed, rec_set_pending>>

\* Line 536: the host invokes the callback with the next input block
RecordCallbackInvoke(c) ==
    /\ ses[c].kind = "record"
    /\ ses[c].stream = "active"
    /\ ses[c].cb = "idle"
    /\ ses[c].i < MaxInput
    /\ Set(c, [ses[c] EXCEPT !.cb = "pause", !.i = @ + 1])
    /\ UNCHANGED <<pb, rec>>

\* Line 537
RecordCallbackPause(c) ==
    /\ ses[c].kind = "record"
    /\ ses[c].cb = "pause"
    /\ Set(c, [ses[c] EXCEPT !.cb = IF GetRecordingState = "PAUSED"
                                    THEN "wait" ELSE "put"])
    /\ UNCHANGED <<pb, rec>>

\* Line 538
RecordCallbackWait(c) ==
    /\ ses[c].kind = "record"
    /\ ses[c].cb = "wait"
    /\ Set(c, [ses[c] EXCEPT !.cb = IF recording_paused_changed
                                    THEN "pause" ELSE "blocked"])
    /\ UNCHANGED <<pb, rec>>

\* A put on a queue of one block that drops the block it holds
RecordCallbackPutDropsOldest(c) ==
    /\ ses[c].kind = "record" /\ ses[c].cb = "put"
    /\ ses' = [ses EXCEPT ![c] = [ses[c] EXCEPT
                 !.q = <<[n |-> ses[c].i, len |-> ses[c].blocksize]>>,
                 !.enqueued = Append(@, ses[c].i),
                 !.cb = "idle"]]
    /\ UNCHANGED <<pb, rec>>

\* Line 544: q.put(indata.copy()) on a queue without a bound
RecordCallbackPut(c) ==
    /\ ses[c].kind = "record"
    /\ ses[c].cb = "put"
    /\ Set(c, [ses[c] EXCEPT
             !.q = Append(@, [n |-> ses[c].i, len |-> ses[c].blocksize]),
             !.enqueued = Append(@, ses[c].i),
             !.cb = "idle"])
    /\ UNCHANGED <<pb, rec>>

\* -------------------------------------------------------- recordplay

RecordPlayAt(c, p) == ses[c].kind = "recordplay" /\ ses[c].pc = p

\* Line 619: the first read of the playback state
RecordPlayCall(c, d) ==
    /\ ses[c].pc = "idle"
    /\ \A e \in Calls : e < c => ses[e].pc # "idle"
    /\ Set(c, [ses[c] EXCEPT
             !.kind = "recordplay", !.duration = d, !.blocksize = BlockSize,
             !.pc = IF GetPlaybackState # "STOPPED"
                    THEN "rp_stop_pb" ELSE "rp_check_rec"])
    /\ UNCHANGED <<pb, rec>>

\* Lines 620-621: stop_playback, then time.sleep(2)
RecordPlayStopPlayback(c) ==
    /\ RecordPlayAt(c, "rp_stop_pb")
    /\ playback_state' = StopPlaybackState(playback_state)
    /\ SetStopping(c, [ses[c] EXCEPT !.pc = "rp_check_rec"])
    /\ UNCHANGED <<rec, playback_paused_changed, pb_set_pending>>

\* Line 623
RecordPlayCheckRecording(c) ==
    /\ RecordPlayAt(c, "rp_check_rec")
    /\ Set(c, [ses[c] EXCEPT !.pc = IF GetRecordingState # "STOPPED"
                                    THEN "rp_stop_rec" ELSE "rp_clear_pb"])
    /\ UNCHANGED <<pb, rec>>

\* Lines 624-625: stop_recording, then time.sleep(2)
RecordPlayStopRecording(c) ==
    /\ RecordPlayAt(c, "rp_stop_rec")
    /\ recording_state' = StopRecordingState(recording_state)
    /\ Set(c, [ses[c] EXCEPT !.pc = "rp_clear_pb"])
    /\ UNCHANGED <<pb, recording_paused_changed, rec_set_pending>>

\* Line 627
RecordPlayClearPlayback(c) ==
    /\ RecordPlayAt(c, "rp_clear_pb")
    /\ playback_paused_changed' = FALSE
    /\ Set(c, [ses[c] EXCEPT !.pc = "rp_clear_rec"])
    /\ UNCHANGED <<rec, playback_state, pb_set_pending>>

\* Lines 628-645
RecordPlayClearRecording(c) ==
    /\ RecordPlayAt(c, "rp_clear_rec")
    /\ recording_paused_changed' = FALSE
    /\ Set(c, [ses[c] EXCEPT !.pc = "rp_open"])
    /\ UNCHANGED <<pb, recording_state, rec_set_pending>>

\* Lines 662-665: the duplex stream is created and entered
RecordPlayOpen(c) ==
    /\ RecordPlayAt(c, "rp_open")
    /\ Set(c, [ses[c] EXCEPT !.stream = "active", !.pc = "rp_start_rec"])
    /\ UNCHANGED <<pb, rec>>

\* Lines 662-665: sd.Stream raises
RecordPlayOpenFails(c) ==
    /\ RecordPlayAt(c, "rp_open")
    /\ Set(c, [ses[c] EXCEPT !.pc = "rp_finally", !.result = "error"])
    /\ UNCHANGED <<pb, rec>>

\* Line 666
RecordPlayStartRecording(c) ==
    /\ RecordPlayAt(c, "rp_start_rec")
    /\ recording_state' = StartRecordingState(recording_state)
    /\ Set(c, [ses[c] EXCEPT !.pc = "rp_start_pb"])
    /\ UNCHANGED <<pb, recording_paused_changed, rec_set_pending>>

\* Line 667
RecordPlayStartPlayback(c) ==
    /\ RecordPlayAt(c, "rp_start_pb")
    /\ playback_state' = StartPlaybackState(playback_state)
    /\ Set(c, [ses[c] EXCEPT !.pc = "rp_loop"])
    /\ UNCHANGED <<rec, playback_paused_changed, pb_set_pending>>

\* Lines 675-677 (and the time.sleep(0.1) of line 681 before the test)
RecordPlayLoop(c) ==
    /\ RecordPlayAt(c, "rp_loop")
    /\ \E elapsed \in IF ses[c].duration = NoDuration THEN {FALSE} ELSE BOOLEAN :
         Set(c, IF GetRecordingState = "STOPPED" \/ elapsed
                THEN [ses[c] EXCEPT !.pc = "rp_close", !.result = "ok"]
                ELSE [ses[c] EXCEPT !.pc = "rp_pause"])
    /\ UNCHANGED <<pb, rec>>

\* Line 678
RecordPlayPause(c) ==
    /\ RecordPlayAt(c, "rp_pause")
    /\ Set(c, [ses[c] EXCEPT !.pc = IF GetRecordingState = "PAUSED"
                                    THEN "rp_wait" ELSE "rp_loop"])
    /\ UNCHANGED <<pb, rec>>

\* Line 679
RecordPlayWait(c) ==
    /\ RecordPlayAt(c, "rp_wait")
    /\ Set(c, [ses[c] EXCEPT !.pc = IF recording_paused_changed
                                    THEN "rp_pause" ELSE "rp_blocked"])
    /\ UNCHANGED <<pb, rec>>

\* Line 662: leaving the `with` block closes the stream
RecordPlayCloseStream(c) ==
    /\ RecordPlayAt(c, "rp_close")
    /\ Set(c, [ses[c] EXCEPT !.stream = "closed", !.cb = "idle",
                             !.pc = "rp_finally"])
    /\ UNCHANGED <<pb, rec>>

\* A finally clause that leaves the playback machine alone
RecordPlayFinallyWithoutStop(c) ==
    /\ ses[c].kind = "recordplay" /\ ses[c].pc = "rp_finally"
    /\ ses' = [ses EXCEPT ![c] = [ses[c] EXCEPT !.pc = "rp_finally_rec"]]
    /\ UNCHANGED <<pb, rec>>

\* Line 686: stop_playback()
RecordPlayFinallyPlayback(c) ==
    /\ RecordPlayAt(c, "rp_finally")
    /\ playback_state' = StopPlaybackState(playback_state)
    /\ SetStopping(c, [ses[c] EXCEPT !.pc = "rp_finally_rec"])
    /\ UNCHANGED <<rec, playback_paused_changed, pb_set_pending>>

\* Line 687: stop_recording(), then the call returns or the exception
\* propagates
RecordPlayFinallyRecording(c) ==
    /\ RecordPlayAt(c, "rp_finally_rec")
    /\ recording_state' = StopRecordingState(recording_state)
    /\ Set(c, [ses[c] EXCEPT !.pc = "done"])
    /\ UNCHANGED <<pb, recording_paused_changed, rec_set_pending>>

\* Line 647: the host invokes the callback with the next input block
RecordPlayCallbackInvoke(c) ==
    /\ ses[c].kind = "recordplay"
    /\ ses[c].stream = "active"
    /\ ses[c].cb = "idle"
    /\ ses[c].i < MaxInput
    /\ Set(c, [ses[c] EXCEPT !.cb = "pause", !.i = @ + 1])
    /\ UNCHANGED <<pb, rec>>

\* Line 648
RecordPlayCallbackPause(c) ==
    /\ ses[c].kind = "recordplay"
    /\ ses[c].cb = "pause"
    /\ Set(c, [ses[c] EXCEPT !.cb = IF GetRecordingState = "PAUSED"
                                    THEN "wait" ELSE "put"])
    /\ UNCHANGED <<pb, rec>>

\* Line 649
RecordPlayCallbackWait(c) ==
    /\ ses[c].kind = "recordplay"
    /\ ses[c].cb = "wait"
    /\ Set(c, [ses[c] EXCEPT !.cb = IF recording_paused_changed
                                    THEN "pause" ELSE "blocked"])
    /\ UNCHANGED <<pb, rec>>

\* Line 655: outdata[:] = indata
RecordPlayCallbackCopy(c) ==
    /\ ses[c].kind = "recordplay"
    /\ ses[c].cb = "put"
    /\ Set(c, [ses[c] EXCEPT !.n = @ + 1, !.cb = "idle"])
    /\ UNCHANGED <<pb, rec>>

\* --------------------------------------------------------------- Next

RecordStep(c) ==
    \/ RecordStopPrior(c)
    \/ RecordClear(c)
    \/ RecordOpen(c)
    \/ RecordOpenFails(c)
    \/ RecordStart(c)
    \/ RecordLoop(c)
    \/ RecordPause(c)
    \/ RecordWait(c)
    \/ RecordGet(c)
    \/ RecordWriteFails(c)
    \/ RecordGetTimeout(c)
    \/ RecordCloseStream(c)
    \/ RecordFinally(c)

RecordCallbackStep(c) ==
    \/ RecordCallbackInvoke(c)
    \/ RecordCallbackPause(c)
    \/ RecordCallbackWait(c)
    \/ RecordCallbackPut(c)

RecordPlayStep(c) ==
    \/ RecordPlayStopPlayback(c)
    \/ RecordPlayCheckRecording(c)
    \/ RecordPlayStopRecording(c)
    \/ RecordPlayClearPlayback(c)
    \/ RecordPlayClearRecording(c)
    \/ RecordPlayOpen(c)
    \/ RecordPlayOpenFails(c)
    \/ RecordPlayStartRecording(c)
    \/ RecordPlayStartPlayback(c)
    \/ RecordPlayLoop(c)
    \/ RecordPlayPause(c)
    \/ RecordPlayWait(c)
    \/ RecordPlayCloseStream(c)
    \/ RecordPlayFinallyPlayback(c)
    \/ RecordPlayFinallyRecording(c)

RecordPlayCallbackStep(c) ==
    \/ RecordPlayCallbackInvoke(c)
    \/ RecordPlayCallbackPause(c)
    \/ RecordPlayCallbackWait(c)
    \/ RecordPlayCallbackCopy(c)

RecordingControl ==
    \/ StopRecording
    \/ PauseRecording
    \/ \E w \in {"PAUSED", "RECORDING"} : PauseRecordingSet(w)


PlayStep(c) ==
    \/ PlayStopPrior(c)
    \/ PlayClear(c)
    \/ PlayOpenFileFails(c)
    \/ PlayStart(c)
    \/ PlayStartSoundsFail(c)
    \/ PrefillPause(c)
    \/ PrefillWait(c)
    \/ PrefillPut(c)
    \/ PlayOpenStream(c)
    \/ PlayOpenStreamFails(c)
    \/ LoopPause(c)
    \/ LoopWait(c)
    \/ LoopStopCheck(c)
    \/ LoopPut(c)
    \/ LoopPutTimeout(c)
    \/ LoopFull(c)
    \/ PlayWaitCompleted(c)
    \/ PlayCloseStream(c)
    \/ PlayFinally(c)

CallbackStep(c) ==
    \/ CallbackInvoke(c)
    \/ CallbackPause(c)
    \/ CallbackWait(c)
    \/ CallbackUnderflow(c)
    \/ CallbackGet(c)

\* The arguments of the play calls tried: Sources holds <<file given,
\* sounds given>> pairs.  With a file the sounds are never read, and with
\* neither nothing is.
PlayArgs(Sources, Bufs, Blocks, Durs) ==
    { [file |-> x[1][1], sounds |-> x[1][2],
       bufsize |-> IF x[1][1] \/ x[1][2] THEN x[2] ELSE 0,
       blocksize |-> BlockSize,
       blocks |-> IF x[1][1] THEN x[3] ELSE 0,
       limit |-> MaxBlocks,
       duration |-> IF x[1][2] /\ ~x[1][1] THEN x[4] ELSE NoDuration] :
      x \in Sources \X Bufs \X Blocks \X Durs }

AllSources == BOOLEAN \X BOOLEAN

\* A tone of one second at 44100 Hz, in blocks of 2048 frames, with a queue
\* of 4 blocks
ToneArgs ==
    [file |-> FALSE, sounds |-> TRUE, bufsize |-> 4, blocksize |-> 2048,
     blocks |-> 0, limit |-> MaxBlocks, duration |-> 44100]

\* The same tone, followed to its end
ToneToEndArgs ==
    [ToneArgs EXCEPT !.limit = ToneArgs.duration \div ToneArgs.blocksize + 1]

Control ==
    \/ StopPlayback
    \/ PausePlayback
    \/ \E w \in {"PAUSED", "PLAYING"} : PausePlaybackSet(w)

\* One play call with every argument, under every control call and beside
\* any other calls
NextPlay ==
    \/ Control
    \/ OtherStartPlayback
    \/ OtherClearPlayback
    \/ \E a \in PlayArgs(AllSources, 0..MaxBuf, 0..MaxFileBlocks, Durations)
                  \cup {ToneArgs} : PlayCall(1, a)
    \/ PlayStep(1)
    \/ CallbackStep(1)

SpecPlay == Init /\ [][NextPlay]_vars

\* The tone played to its end with no call of stop_playback or
\* pause_playback: the steps of play and of its callback that such a
\* session takes
NextTone ==
    \/ PlayCall(1, ToneToEndArgs)
    \/ PlayClear(1)
    \/ PlayStart(1)
    \/ PrefillPause(1)
    \/ PrefillPut(1)
    \/ PlayOpenStream(1)
    \/ LoopPause(1)
    \/ LoopStopCheck(1)
    \/ LoopPut(1)
    \/ LoopPutTimeout(1)
    \/ LoopFull(1)
    \/ PlayWaitCompleted(1)
    \/ PlayCloseStream(1)
    \/ PlayFinally(1)
    \/ CallbackInvoke(1)
    \/ CallbackPause(1)
    \/ CallbackUnderflow(1)
    \/ CallbackGet(1)

SpecTone == Init /\ [][NextTone]_vars

OneSources == {<<TRUE, FALSE>>, <<FALSE, TRUE>>}

\* Two overlapping play calls with a queue of one block: the first of a
\* sound of two blocks and a half, the others of that sound or of a file of
\* two blocks
SourcesOf(c) == IF c = 1 THEN {<<FALSE, TRUE>>} ELSE OneSources

Next ==
    \/ Control
    \/ \E c \in Calls :
         \E a \in PlayArgs(SourcesOf(c), {1}, {2}, {2 * BlockSize + 1}) :
            PlayCall(c, a)
    \/ \E c \in Calls : PlayStep(c)
    \/ \E c \in Calls : CallbackStep(c)

Spec == Init /\ [][Next]_vars

\* One call of play, record or recordplay, under every control call of the
\* two machines and beside any other calls.  The play call is one of Next's.
NextDuplex ==
    \/ Control
    \/ RecordingControl
    \/ OtherStartPlayback
    \/ OtherClearPlayback
    \/ OtherStartRecording
    \/ OtherClearRecording
    \/ \E a \in PlayArgs(OneSources, {1}, {2}, {2 * BlockSize + 1}) :
          PlayCall(1, a)
    \/ \E d \in {NoDuration, 1} : RecordCall(1, d)
    \/ \E d \in {NoDuration, 1} : RecordPlayCall(1, d)
    \/ PlayStep(1)
    \/ CallbackStep(1)
    \/ RecordStep(1)
    \/ RecordClock(1)
    \/ RecordCallbackStep(1)
    \/ RecordPlayStep(1)
    \/ RecordPlayCallbackStep(1)

SpecDuplex == Init /\ [][NextDuplex]_vars

\* One record call with a duration, from a plugin that is not recording,
\* under every control call of the recording machine
NextRecord ==
    \/ RecordingControl
    \/ RecordCall(1, 1)
    \/ RecordClear(1)
    \/ RecordOpen(1)
    \/ RecordOpenFails(1)
    \/ RecordStart(1)
    \/ RecordLoop(1)
    \/ RecordPause(1)
    \/ RecordWait(1)
    \/ RecordGet(1)
    \/ RecordWriteFails(1)
    \/ RecordGetTimeout(1)
    \/ RecordCloseStream(1)
    \/ RecordFinally(1)
    \/ RecordClock(1)
    \/ RecordCallbackStep(1)

\* The caller's thread and the audio host take their steps, a
\* pause_recording on its way to set() reaches it, and time passes.  Nobody
\* is bound to call stop_recording or pause_recording.
RecordFairness ==
    /\ WF_vars(RecordStep(1))
    /\ WF_vars(RecordCallbackStep(1))
    /\ WF_vars(RecordClock(1))
    /\ \A w \in {"PAUSED", "RECORDING"} : WF_vars(PauseRecordingSet(w))

SpecRecord == Init /\ [][NextRecord]_vars /\ RecordFairness

\* Two overlapping record calls, the first without a duration and the
\* second with one, under every control call of the recording machine
NextRecordings ==
    \/ RecordingControl
    \/ \E c \in Calls : RecordCall(c, IF c = 1 THEN NoDuration ELSE 1)
    \/ \E c \in Calls : RecordStep(c)
    \/ \E c \in Calls : RecordClock(c)
    \/ \E c \in Calls : RecordCallbackStep(c)

SpecRecordings == Init /\ [][NextRecordings]_vars

\* Every thread that can take a step takes one: the callers inside play, the
\* audio host, and a pause_playback on its way to set().  The host does not
\* flag an output underflow on every invocation for ever.  Nobody is bound to
\* call play, stop_playback or pause_playback.
Fairness ==
    /\ \A c \in Calls : WF_vars(PlayStep(c)) /\ WF_vars(CallbackStep(c))
    /\ \A c \in Calls : SF_vars(CallbackGet(c))
    /\ \A w \in {"PAUSED", "PLAYING"} : WF_vars(PausePlaybackSet(w))

SpecFair == Spec /\ Fairness

\* ------------------------------------------------------------- claims

\* C1: pause_playback and pause_recording take the active state to PAUSED
\* and PAUSED to the active state; in STOPPED they change nothing and no
\* set() follows.  Two toggles from the active state give the active state.
C1_TogglePause ==
    [][/\ PausePlayback =>
            /\ playback_state = "PLAYING" => playback_state' = "PAUSED"
            /\ playback_state = "PAUSED" => playback_state' = "PLAYING"
            /\ playback_state = "STOPPED" =>
                  /\ playback_state' = "STOPPED"
                  /\ UNCHANGED <<playback_paused_changed, pb_set_pending>>
       /\ PauseRecording =>
            /\ recording_state = "RECORDING" => recording_state' = "PAUSED"
            /\ recording_state = "PAUSED" => recording_state' = "RECORDING"
            /\ recording_state = "STOPPED" =>
                  /\ recording_state' = "STOPPED"
                  /\ UNCHANGED <<recording_paused_changed, rec_set_pending>>
       /\ (\E w \in {"PAUSED", "PLAYING"} : PausePlaybackSet(w)) =>
            pb_set_pending["PAUSED"] + pb_set_pending["PLAYING"] > 0
       /\ TogglePlaybackState(TogglePlaybackState("PLAYING")) = "PLAYING"
       /\ ToggleRecordingState(ToggleRecordingState("RECORDING")) = "RECORDING"
      ]_vars

\* Both machines have been paused by a toggle, and the set() of one toggle
\* is still to come
C1_Witness ==
    /\ playback_state = "PAUSED"
    /\ recording_state = "PAUSED"
    /\ pb_set_pending["PAUSED"] > 0

StartsPlayback ==
    \/ OtherStartPlayback
    \/ \E c \in Calls : PlayStart(c) \/ PlayStartSoundsFail(c)
                            \/ RecordPlayStartPlayback(c)

StartsRecording ==
    \/ OtherStartRecording
    \/ \E c \in Calls : RecordStart(c) \/ RecordPlayStartRecording(c)

\* C2: stop_playback and stop_recording can be called in every state and
\* leave their machine STOPPED; a STOPPED machine leaves STOPPED only by a
\* start.
C2_Stop ==
    /\ [](ENABLED StopPlayback /\ ENABLED StopRecording)
    /\ [][/\ StopPlayback => playback_state' = "STOPPED"
          /\ StopRecording => recording_state' = "STOPPED"
          /\ (playback_state = "STOPPED" /\ playback_state' # "STOPPED")
                => StartsPlayback
          /\ (recording_state = "STOPPED" /\ recording_state' # "STOPPED")
                => StartsRecording
         ]_vars

\* A recordplay session inside its loop whose two machines have been stopped
C2_Witness ==
    /\ ses[1].kind = "recordplay"
    /\ ses[1].pc = "rp_blocked"
    /\ playback_state = "STOPPED"
    /\ recording_state = "STOPPED"

\* The caller's thread, or the callback, has read PAUSED and is at wait()
InWait(c) == ses[c].pc \in {"pf_wait", "pf_blocked", "lp_wait", "lp_blocked"}
CallbackInWait(c) == ses[c].cb \in {"wait", "blocked"}

\* C3: a thread in the pause-wait when the state is STOPPED leaves the wait.
C3_StopReleasesWaiter ==
    \A c \in Calls :
        /\ (InWait(c) /\ playback_state = "STOPPED") ~> ~InWait(c)
        /\ (CallbackInWait(c) /\ playback_state = "STOPPED") ~> ~CallbackInWait(c)

\* C4: a thread in the pause-wait when pause_playback has resumed playback
\* (PAUSED to PLAYING, set() still to come) leaves the wait.
C4_NoLostWakeup ==
    \A c \in Calls :
        /\ (InWait(c) /\ pb_set_pending["PLAYING"] > 0) ~> ~InWait(c)
        /\ (CallbackInWait(c) /\ pb_set_pending["PLAYING"] > 0)
              ~> ~CallbackInWait(c)

Streaming == {c \in Calls : ses[c].stream = "active"}

\* C5: start is legal only from Stopped: every start_playback made by a
\* play call is made in the state STOPPED.
C5_StartOnlyFromStopped ==
    [][\A c \in Calls :
         (PlayStart(c) \/ PlayStartSoundsFail(c)) => playback_state = "STOPPED"]_vars

\* C6: playback sessions are serialized: at no time do two sessions both
\* have an open, running output stream.
C6_OneStreamAtATime == Cardinality(Streaming) <= 1

\* C7: a play call given neither or both of file and sounds fails at once,
\* and changes nothing but its own outcome.
C7_ExactlyOneSource ==
    [][\A c \in Calls :
         (ses[c].pc = "idle" /\ ses'[c].pc # "idle"
            /\ ses'[c].file = ses'[c].sounds)
         => /\ ses'[c].pc = "done" /\ ses'[c].result = "invalid"
            /\ UNCHANGED <<playback_state, playback_paused_changed,
                           pb_set_pending>>]_vars

\* A call returns or raises, having passed its argument check
Exits(c) == ses[c].pc # "done" /\ ses'[c].pc = "done" /\ ses'[c].result # "invalid"

C9_PrefillBeforeOpen ==
    \A c \in Calls :
        LET s == ses[c]
            blocks == IF s.file THEN s.f + s.n
                      ELSE IF s.duration = NoDuration THEN s.bufsize
                      ELSE (s.duration + s.blocksize - 1) \div s.blocksize
        IN  /\ s.result # "prefill_full"
            /\ PlayAt(c, "open_stream") =>
                 /\ s.stream = "none"
                 /\ s.cb = "idle"
                 /\ Len(s.q) <= s.bufsize
                 /\ Len(s.q) = Min(s.bufsize, blocks)
                 /\ s.blocksize = ToneArgs.blocksize => Len(s.q) = 4

\* C10 as claimed: the queue never holds more blocks than bufsize.
C10_QueueWithinBufsize ==
    \A c \in Calls : ses[c].kind = "play" => Len(ses[c].q) <= ses[c].bufsize

\* C10: with a bufsize of one or more the queue never holds more blocks
\* than bufsize.
C10_QueueWithinPositiveBufsize ==
    \A c \in Calls :
        (ses[c].kind = "play" /\ ses[c].bufsize > 0)
        => Len(ses[c].q) <= ses[c].bufsize

\* The queue is full and the timed put of the producer loop has expired
C10_Witness ==
    \E c \in Calls :
        /\ PlayAt(c, "lp_full")
        /\ ses[c].bufsize > 0
        /\ Len(ses[c].q) = ses[c].bufsize

\* C11: the blocks of a session are numbered in the order they are read or
\* synthesized.  The callback copies them in that order and none twice: the
\* queue is in increasing order, every queued block is later than the one
\* last copied, and every copy is of a later block than the copy before.
C11_FifoDelivery ==
    /\ [](\A c \in Calls :
            ses[c].kind = "play" =>
              /\ \A j \in 1..Len(ses[c].q) :
                    /\ ses[c].q[j].n > ses[c].out
                    /\ j > 1 => ses[c].q[j - 1].n < ses[c].q[j].n
              /\ ses[c].out <= ses[c].n)
    /\ [][\A c \in Calls :
            (ses[c].kind = "play" /\ ses'[c].out # ses[c].out)
            => /\ ses[c].q # <<>>
               /\ ses'[c].out = Head(ses[c].q).n
               /\ ses'[c].out > ses[c].out
               /\ ses'[c].q = Tail(ses[c].q)]_vars

\* The callback has copied the second block while a third one is queued
C11_Witness ==
    \E c \in Calls :
        /\ ses[c].kind = "play"
        /\ ses[c].out = 2
        /\ ses[c].q # <<>>
        /\ Head(ses[c].q).n = 3

\* C12 as claimed: an invocation that has passed the stop check and the
\* pause-wait and returns with the queue empty has raised the abort.
C12_EmptyQueueAborts ==
    [][\A c \in Calls :
         (/\ ses[c].kind = "play" /\ ses[c].cb = "get" /\ ses[c].q = <<>>
          /\ ses'[c].cb = "idle" /\ ses'[c].pc = ses[c].pc)
         => (ses'[c].stream = "aborted" /\ ses'[c].completed)]_vars

\* C12: the callback never blocks on the queue.  q.get_nowait() can always
\* be taken; on an empty queue it takes nothing and raises the abort, which
\* ends the stream and sets completed_callback_event; an invocation the host
\* flags with an output underflow returns before the queue is read, taking
\* nothing and raising nothing.  The callback blocks only in the wait() of
\* the pause-wait.
C12_CallbackNeverBlocksOnQueue ==
    /\ [](\A c \in Calls :
            (ses[c].kind = "play" /\ ses[c].cb = "get") => ENABLED CallbackGet(c))
    /\ [][\A c \in Calls :
            /\ (CallbackGet(c) /\ ses[c].q = <<>>) =>
                 /\ ses'[c].q = <<>>
                 /\ ses'[c].out = ses[c].out
                 /\ ses'[c].stream = "aborted"
                 /\ ses'[c].completed
                 /\ ses'[c].cb = "idle"
            /\ CallbackUnderflow(c) =>
                 /\ ses'[c].q = ses[c].q
                 /\ ses'[c].out = ses[c].out
                 /\ ses'[c].stream = ses[c].stream
            /\ (ses[c].kind = "play" /\ ses[c].cb # "blocked"
                   /\ ses'[c].cb = "blocked") => CallbackWait(c)]_vars

\* The callback has aborted the stream on an empty queue while the state
\* is PLAYING and the producer holds its next block
C12_Witness ==
    /\ PlayAt(1, "lp_stop")
    /\ ses[1].stream = "aborted"
    /\ ses[1].q = <<>>
    /\ ses[1].out > 0
    /\ playback_state = "PLAYING"

\* C13: once stop_playback has been called on a session with its stream
\* open, the callback copies at most one more block and the producer loop
\* enqueues at most one more.
C13_StopWithinOneBlock ==
    \A c \in Calls :
        ses[c].kind = "play" => (ses[c].stop_out <= 1 /\ ses[c].stop_in <= 1)

\* The session whose producer has raised queue.Full out of the loop
Stalled(c) == ses[c].kind = "play" /\ ses[c].result = "full"

\* C14: when q.put times out on a full queue and the state read at line 457
\* is not PAUSED, queue.Full leaves the loop: nothing is enqueued by that
\* step or after it, the stream is closed, and the call ends with the file
\* closed and the playback state STOPPED.
C14_StalledConsumerFatal ==
    [][\A c \in Calls :
         /\ (PlayAt(c, "lp_full") /\ playback_state # "PAUSED"
                /\ ses'[c].pc # "lp_full") =>
              /\ ses'[c].pc = "close_stream"
              /\ ses'[c].result = "full"
              /\ ses'[c].q = ses[c].q
         /\ Stalled(c) =>
              /\ Len(ses'[c].q) <= Len(ses[c].q)
              /\ ses'[c].result = "full"
              /\ ses[c].pc \in {"close_stream", "finally", "done"}
              /\ ses[c].pc = "close_stream" =>
                    ses'[c].pc \in {"close_stream", "finally"}
              /\ ses[c].pc = "finally" => ses'[c].pc \in {"finally", "done"}
              /\ ses[c].pc = "done" => ses'[c].pc = "done"
              /\ ses'[c].pc = "finally" => ses'[c].stream = "closed"
              /\ (ses[c].pc = "finally" /\ ses'[c].pc = "done") =>
                    /\ ses'[c].stream = "closed"
                    /\ ~ses'[c].f_open
                    /\ playback_state' = "STOPPED"]_vars

\* A play call of a file has ended on queue.Full with the file closed and
\* the state STOPPED
C14_Witness ==
    /\ Stalled(1)
    /\ ses[1].pc = "done"
    /\ ses[1].file
    /\ ~ses[1].f_open
    /\ ses[1].stream = "closed"
    /\ playback_state = "STOPPED"

\* The producer has left its loops on the end of the source (lines 436 and
\* 449) and waits for the stream to finish
SourceExhausted(c) == PlayAt(c, "wait_done")

\* stop_playback has been called while the session's stream is open
StopRequested(c) == ses[c].kind = "play" /\ ses[c].stop_out >= 0

\* The play call has exited with its file closed
Terminated(c) ==
    /\ ses[c].kind = "play" /\ ses[c].pc = "done"
    /\ ~ses[c].f_open /\ ses[c].stream # "active"

\* C15: every playback session terminates.  When the playback state is from
\* some time on never PAUSED, a session whose source is exhausted, or on
\* which stop_playback has been called, leads to the exit of its play call
\* with the stream and the file closed.
C15_SessionTerminates ==
    (<>[](playback_state # "PAUSED")) =>
        \A c \in Calls :
            (SourceExhausted(c) \/ StopRequested(c)) ~> Terminated(c)

\* A play session that synthesizes a sound with a duration
Synthesizes(c) ==
    /\ ses[c].kind = "play" /\ ses[c].sounds /\ ~ses[c].file
    /\ ses[c].duration # NoDuration

\* C16: for a sound with a duration, every get_wave call of the pre-fill
\* loop and of the producer loop has 0 <= t_start <= t_end <= duration; the
\* cursor t is the end of the last call, never decreases and never exceeds
\* the duration; each call starts where the last one ended.
C16_SynthesisRequests ==
    /\ [](\A c \in Calls : Synthesizes(c) =>
            /\ 0 <= ses[c].t_start
            /\ ses[c].t_start <= ses[c].t_end
            /\ ses[c].t_end <= ses[c].duration
            /\ ses[c].t = ses[c].t_end)
    /\ [][\A c \in Calls : Synthesizes(c) =>
            /\ ses'[c].t >= ses[c].t
            /\ (<<ses'[c].t_start, ses'[c].t_end>>
                    # <<ses[c].t_start, ses[c].t_end>>) =>
                  ses'[c].t_start = ses[c].t_end]_vars

\* The last call of a sound of two blocks and a half has been made: it ends
\* at the duration and is shorter than a block
C16_Witness ==
    /\ Synthesizes(1)
    /\ ses[1].duration = 2 * BlockSize + 1
    /\ ses[1].t_start = 2 * BlockSize
    /\ ses[1].t_end = ses[1].duration

\* The play call has returned after its source ended and its stream finished
Completed(c) ==
    ses[c].kind = "play" /\ ses[c].pc = "done" /\ ses[c].result = "ok"

\* C17: a synthesized session that runs to completion has put on the queue
\* as many frames as the duration holds, the last and shorter block among
\* them: 44100 for the tone of one second.
C17_AllSamplesEnqueued ==
    \A c \in Calls :
        (Synthesizes(c) /\ Completed(c)) => ses[c].enq = ses[c].duration

\* s is the beginning of t
IsPrefix(s, t) == Len(s) <= Len(t) /\ SubSeq(t, 1, Len(s)) = s

\* C18: in a record call the blocks written to the file are, in order, the
\* first of the blocks the callback put on the queue, and the rest of them
\* but at most one are still queued; the file is opened at most once, is
\* closed when it is not open, and has been closed exactly once when the
\* call ends after opening it, with or without an exception.
C18_SinkIsPrefixClosedOnce ==
    \A c \in Calls : ses[c].kind = "record" =>
        /\ IsPrefix(ses[c].written, ses[c].enqueued)
        /\ IsPrefix([j \in 1..Len(ses[c].q) |-> ses[c].q[j].n],
                    SubSeq(ses[c].enqueued, Len(ses[c].enqueued) - Len(ses[c].q) + 1,
                           Len(ses[c].enqueued)))
        /\ Len(ses[c].written) + Len(ses[c].q) <= Len(ses[c].enqueued)
        /\ Len(ses[c].enqueued) <= Len(ses[c].written) + Len(ses[c].q) + 1
        /\ ses[c].opens <= 1
        /\ ses[c].closes = IF ses[c].f_open THEN 0 ELSE ses[c].opens
        /\ ses[c].pc \in {"rc_finally", "done"} => ses[c].closes = ses[c].opens

\* A record call has written two blocks and returned with its file closed
C18_Witness ==
    /\ ses[1].kind = "record" /\ ses[1].pc = "done" /\ ses[1].result = "ok"
    /\ ses[1].written = <<1, 2>>
    /\ ses[1].closes = 1

\* The callback invocations of a record call that are not in flight
Delivered(c) == ses[c].i - (IF ses[c].cb = "idle" THEN 0 ELSE 1)

InRecordLoop(c) ==
    ses[c].kind = "record"
    /\ ses[c].pc \in {"rc_loop", "rc_pause", "rc_wait", "rc_blocked", "rc_get"}

\* The record call has left the loop and the two `with` blocks, and the file
\* is closed
LoopExited(c) ==
    /\ ses[c].kind = "record" /\ ses[c].pc \in {"rc_finally", "done"}
    /\ ~ses[c].f_open

\* The recording state is PAUSED from some time on, or from some time on it
\* never is: the calls of pause_recording come to an end
PausesSettle ==
    \/ <>[](recording_state = "PAUSED")
    \/ <>[](recording_state # "PAUSED")

\* C20 as claimed: a consumer loop that finds itself with the recording
\* state STOPPED, or with the duration elapsed, in whatever state, PAUSED
\* included, leads to the loop exited and the file closed.
C20_LoopExitsOnStopOrDuration ==
    PausesSettle =>
        \A c \in Calls :
            (InRecordLoop(c) /\ (recording_state = "STOPPED" \/ ses[c].elapsed))
                ~> LoopExited(c)

\* The recording sessions whose input stream is open
RecordingNow ==
    {c \in Calls : ses[c].kind \in {"record", "recordplay"}
                   /\ ses[c].stream = "active"}

\* C21: recording sessions are serialized: at no time do two sessions both
\* have an open input stream, so no two write blocks to their files.
C21_OneRecordingAtATime == Cardinality(RecordingNow) <= 1

\* The recordplay call enters its loop, having made its two starts
EntersDuplexLoop(c) ==
    /\ ses[c].kind = "recordplay"
    /\ ses[c].pc # "rp_loop" /\ ses'[c].pc = "rp_loop"
    /\ ses[c].pc # "rp_pause"

LimbBits == 14
Base == 2^LimbBits
MantBits == 53

Max(a, b) == IF a >= b THEN a ELSE b

SetMax(S) == CHOOSE x \in S : \A y \in S : y <= x

\* Limb i of a, 0 beyond its length
Limb(a, i) == IF i \in 1..Len(a) THEN a[i] ELSE 0

\* a without its leading zero limbs
BigNorm(a) ==
    LET nz == {i \in DOMAIN a : a[i] # 0}
    IN  IF nz = {} THEN <<>> ELSE SubSeq(a, 1, SetMax(nz))

\* for 0 <= n < 2^31
BigFromInt(n) ==
    BigNorm(<<n % Base, (n \div Base) % Base, n \div (Base * Base)>>)

\* for a < 2^31
BigToInt(a) == Limb(a, 1) + Base * Limb(a, 2) + Base * Base * Limb(a, 3)

\* The bits of a limb
BitLen(x) == CHOOSE k \in 0..LimbBits : 2^k > x /\ (k = 0 \/ 2^(k - 1) <= x)

BigBitLen(a) ==
    IF a = <<>> THEN 0 ELSE LimbBits * (Len(a) - 1) + BitLen(a[Len(a)])

\* a + b: limb i takes a carry when a limb below it overflows and every
\* limb between the two is full
BigAdd(a, b) ==
    IF a = <<>> THEN b
    ELSE IF b = <<>> THEN a
    ELSE LET n        == Max(Len(a), Len(b)) + 1
             s        == [i \in 1..n |-> Limb(a, i) + Limb(b, i)]
             carry(i) == \E j \in 1..(i - 1) :
                            /\ s[j] >= Base
                            /\ \A k \in (j + 1)..(i - 1) : s[k] = Base - 1
         IN  BigNorm([i \in 1..n |->
                         (s[i] + (IF carry(i) THEN 1 ELSE 0)) % Base])

\* a - b, for a >= b: limb i gives a borrow when a limb below it is short
\* and every limb between the two is zero
BigSub(a, b) ==
    IF b = <<>> THEN a
    ELSE LET d         == [i \in 1..Len(a) |-> a[i] - Limb(b, i)]
             borrow(i) == \E j \in 1..(i - 1) :
                             /\ d[j] < 0
                             /\ \A k \in (j + 1)..(i - 1) : d[k] = 0
         IN  BigNorm([i \in 1..Len(a) |->
                         (d[i] - (IF borrow(i) THEN 1 ELSE 0) + Base) % Base])

\* -1, 0 or 1 as a < b, a = b or a > b
BigCmp(a, b) ==
    LET differ == {i \in 1..Len(a) : a[i] # b[i]}
    IN  IF Len(a) > Len(b) THEN 1
        ELSE IF Len(a) < Len(b) THEN -1
        ELSE IF differ = {} THEN 0
        ELSE IF a[SetMax(differ)] > b[SetMax(differ)] THEN 1
        ELSE -1

\* The limbs of the shorter of two numbers that are multiplied
MaxLimbs == 7

\* a * b, for a or b of at most MaxLimbs limbs: the products of the limbs
\* are summed by columns, and each sum, below 2^31, is split in three limbs
BigMul(a, b) ==
    IF a = <<>> \/ b = <<>> THEN <<>>
    ELSE LET x      == IF Len(a) <= Len(b) THEN a ELSE b
             y      == IF Len(a) <= Len(b) THEN b ELSE a
             n      == Len(a) + Len(b)
             col(k) == Limb(x, 1) * Limb(y, k) + Limb(x, 2) * Limb(y, k - 1)
                       + Limb(x, 3) * Limb(y, k - 2)
                       + Limb(x, 4) * Limb(y, k - 3)
                       + Limb(x, 5) * Limb(y, k - 4)
                       + Limb(x, 6) * Limb(y, k - 5)
                       + Limb(x, 7) * Limb(y, k - 6)
             c      == SubSeq([k \in 1..n |-> col(k)], 1, n)
             lo     == [k \in 1..n |-> c[k] % Base]
             mid_hi == [k \in 1..n |->
                          (IF k < 2 THEN 0 ELSE (c[k - 1] \div Base) % Base)
                          + (IF k < 3 THEN 0 ELSE c[k - 2] \div (Base * Base))]
         IN  BigAdd(lo, mid_hi)

\* a * 2^k
BigShl(a, k) ==
    IF a = <<>> THEN a
    ELSE BigNorm([i \in 1..(Len(a) + (k \div LimbBits) + 1) |->
                    IF i <= k \div LimbBits THEN 0
                    ELSE ((Limb(a, i - (k \div LimbBits)) * 2^(k % LimbBits))
                          % Base)
                         + (Limb(a, i - (k \div LimbBits) - 1)
                            \div 2^(LimbBits - (k % LimbBits)))])

\* a \div 2^k
BigShr(a, k) ==
    IF k \div LimbBits >= Len(a) THEN <<>>
    ELSE BigNorm([i \in 1..(Len(a) - (k \div LimbBits)) |->
                    (a[i + (k \div LimbBits)] \div 2^(k % LimbBits))
                    + (Limb(a, i + (k \div LimbBits) + 1) % 2^(k % LimbBits))
                      * 2^(LimbBits - (k % LimbBits))])

\* a % 2^k
BigLow(a, k) ==
    IF a = <<>> THEN a
    ELSE BigNorm([i \in 1..(IF Len(a) <= k \div LimbBits THEN Len(a)
                           ELSE (k \div LimbBits) + 1) |->
                    IF i <= k \div LimbBits THEN a[i]
                    ELSE a[i] % 2^(k % LimbBits)])

\* One limb of a quotient: the largest g with d * g <= x, for x < d * Base
\* and d with the top bit of its top limb set.  The quotient of the two top
\* limbs of x by the top limb of d is then g, g + 1 or g + 2.
BigDigit(x, d) ==
    LET top == Limb(x, Len(d) + 1) * Base + Limb(x, Len(d))
        est == IF top \div d[Len(d)] >= Base THEN Base - 1
               ELSE top \div d[Len(d)]
    IN  SetMax({g \in Max(0, est - 2)..est :
                   BigCmp(BigMul(BigFromInt(g), d), x) <= 0})

\* A step of the long division by d: the remainder with the next limb of
\* the dividend brought down is x, and its quotient by d is the limb g put
\* before the quotient s.q
DivDigit(s, x, g, d) ==
    [q |-> <<g>> \o s.q, r |-> BigSub(x, BigMul(BigFromInt(g), d))]

DivStep(s, x, d) == DivDigit(s, x, BigDigit(x, d), d)

RECURSIVE BigLongDiv(_, _, _)
BigLongDiv(s, n, d) ==
    IF Len(s.q) > Len(n) - Len(d) THEN s
    ELSE BigLongDiv(
             DivStep(s, BigNorm(<<n[Len(n) - Len(d) + 1 - Len(s.q)]>> \o s.r),
                     d),
             n, d)

\* The quotient and the remainder of n * 2^s by d * 2^s are those of n by
\* d, but for the remainder's factor
DivUnshift(qr, s) == [q |-> BigNorm(qr.q), r |-> BigShr(qr.r, s)]

DivShifted(n, d, s) ==
    DivUnshift(BigLongDiv([q |-> <<>>,
                           r |-> SubSeq(n, Len(n) - Len(d) + 2, Len(n))],
                          n, d),
               s)

\* quotient q and remainder r of n by d, for d > 0 and a quotient of at
\* most MaxLimbs limbs
BigDivMod(n, d) ==
    IF Len(n) < Len(d) THEN [q |-> <<>>, r |-> n]
    ELSE DivShifted(BigShl(n, LimbBits - BitLen(d[Len(d)])),
                    BigShl(d, LimbBits - BitLen(d[Len(d)])),
                    LimbBits - BitLen(d[Len(d)]))

\* The float 0.0
Zero == [sign |-> 1, mant |-> <<>>, exp |-> 0]

\* The float sign * m * 2^e for m of MantBits bits, or of one bit more when
\* rounding up has carried
FloatOf(sign, m, e) ==
    IF BigBitLen(m) > MantBits
    THEN [sign |-> sign, mant |-> BigShr(m, 1), exp |-> e + 1]
    ELSE [sign |-> sign, mant |-> m, exp |-> e]

\* m or m + 1, as the bits dropped below m are less than half a unit of m
\* (cmp < 0), more (cmp > 0), or exactly half: then the even one
Nearest(m, cmp) ==
    IF cmp > 0 \/ (cmp = 0 /\ m[1] % 2 = 1) THEN BigAdd(m, <<1>>) ELSE m

\* The float nearest to sign * n * 2^e, ties to the even significand (the
\* IEEE 754 default rounding, which every float operation of CPython
\* uses)
RoundToFloat(sign, n, e) ==
    IF n = <<>> THEN Zero
    ELSE IF BigBitLen(n) <= MantBits
    THEN [sign |-> sign, mant |-> BigShl(n, MantBits - BigBitLen(n)),
          exp |-> e - (MantBits - BigBitLen(n))]
    ELSE FloatOf(sign,
                 Nearest(BigShr(n, BigBitLen(n) - MantBits),
                         BigCmp(BigLow(n, BigBitLen(n) - MantBits),
                                BigShl(<<1>>, BigBitLen(n) - MantBits - 1))),
                 e + BigBitLen(n) - MantBits)

\* float(i) for an int i
float(i) ==
    RoundToFloat(IF i < 0 THEN -1 ELSE 1,
                 BigFromInt(IF i < 0 THEN -i ELSE i), 0)

\* a * b
FloatMul(a, b) ==
    IF a.mant = <<>> \/ b.mant = <<>> THEN Zero
    ELSE RoundToFloat(a.sign * b.sign, BigMul(a.mant, b.mant), a.exp + b.exp)

\* A quotient with one more bit, set when the division left a remainder
Sticky(qr) == BigAdd(BigShl(qr.q, 1), IF qr.r = <<>> THEN <<>> ELSE <<1>>)

\* a / b, for b # 0.0: the quotient of the significands is taken to three
\* or four bits more than a significand
FloatDiv(a, b) ==
    IF b.mant = <<>> \/ a.mant = <<>> THEN Zero
    ELSE RoundToFloat(a.sign * b.sign,
                      Sticky(BigDivMod(BigShl(a.mant, MantBits + 3), b.mant)),
                      a.exp - b.exp - MantBits - 4)

\* sa * x * 2^e + sb * y * 2^e
AddAligned(sa, x, sb, y, e) ==
    IF sa = sb THEN RoundToFloat(sa, BigAdd(x, y), e)
    ELSE IF BigCmp(x, y) >= 0 THEN RoundToFloat(sa, BigSub(x, y), e)
    ELSE RoundToFloat(sb, BigSub(y, x), e)

\* a + b
FloatAdd(a, b) ==
    IF a.mant = <<>> THEN b
    ELSE IF b.mant = <<>> THEN a
    ELSE AddAligned(a.sign, BigShl(a.mant, a.exp - Min(a.exp, b.exp)),
                    b.sign, BigShl(b.mant, b.exp - Min(a.exp, b.exp)),
                    Min(a.exp, b.exp))

\* int(a): the integer part, rounding towards zero
int(a) ==
    a.sign * BigToInt(IF a.exp >= 0 THEN BigShl(a.mant, a.exp)
                      ELSE BigShr(a.mant, -a.exp))

\* The C library's pow and log are evaluated in fixed point with FracBits
\* fractional bits, by their power series, and rounded to the nearest
\* float, which is the result glibc returns for the arguments met here.
FracBits == 70

One == BigShl(<<1>>, FracBits)

FixMul(a, b) == BigShr(BigMul(a, b), FracBits)

\* A partial sum acc of a series, its next term t and the number j of that
\* term.  atanh z = z + z^3/3 + z^5/5 + ..., for 0 <= z <= 1/3
AtanhTerm(s, z2) ==
    IF s.t = <<>> THEN s
    ELSE [t   |-> FixMul(s.t, z2), j |-> s.j + 1,
          acc |-> BigAdd(s.acc, BigDivMod(s.t, BigFromInt(2 * s.j - 1)).q)]

RECURSIVE AtanhSum(_, _)
AtanhSum(s, z2) ==
    IF s.t = <<>> THEN s.acc
    ELSE AtanhSum(AtanhTerm(AtanhTerm(AtanhTerm(AtanhTerm(AtanhTerm(
                      s, z2), z2), z2), z2), z2), z2)

Atanh(z) == AtanhSum([t |-> z, j |-> 1, acc |-> <<>>], FixMul(z, z))

\* ln 2 = 2 atanh (1/3)
Ln2 == BigShl(Atanh(BigDivMod(One, <<3>>).q), 1)

\* e^y = 1 + y + y^2/2! + ..., for 0 <= y < 1
ExpTerm(s, y) ==
    IF s.t = <<>> THEN s
    ELSE [t   |-> BigDivMod(FixMul(s.t, y), BigFromInt(s.j)).q,
          j   |-> s.j + 1,
          acc |-> BigAdd(s.acc, s.t)]

RECURSIVE ExpSum(_, _)
ExpSum(s, y) ==
    IF s.t = <<>> THEN s.acc
    ELSE ExpSum(ExpTerm(ExpTerm(ExpTerm(ExpTerm(ExpTerm(
                    s, y), y), y), y), y), y)

Exp(y) == ExpSum([t |-> One, j |-> 1, acc |-> <<>>], y)

\* 2^(i + t) = 2^i e^(t ln 2), for an integer i and 0 <= t < 1
Pow2Parts(i, t) == RoundToFloat(1, Exp(FixMul(t, Ln2)), i - FracBits)

\* 2^(sign * (whole + frac)), for an integer whole and 0 <= frac < 1
Pow2Split(sign, whole, frac) ==
    Pow2Parts(IF sign < 0 /\ frac # <<>> THEN -whole - 1 ELSE sign * whole,
              IF sign < 0 /\ frac # <<>> THEN BigSub(One, frac) ELSE frac)

\* 2^(sign * fix / 2^FracBits)
Pow2Fix(sign, fix) ==
    Pow2Split(sign, BigToInt(BigShr(fix, FracBits)), BigLow(fix, FracBits))

\* 2.0 ** x
pow2(x) ==
    Pow2Fix(x.sign, IF FracBits + x.exp >= 0
                    THEN BigShl(x.mant, FracBits + x.exp)
                    ELSE BigShr(x.mant, -(FracBits + x.exp)))

\* The float nearest to k ln 2 + ln_m, for k_ln2 = |k| ln 2 and ln_m >= 0
LogSum(k, k_ln2, ln_m) ==
    IF k >= 0 THEN RoundToFloat(1, BigAdd(k_ln2, ln_m), -FracBits)
    ELSE IF BigCmp(k_ln2, ln_m) >= 0
    THEN RoundToFloat(-1, BigSub(k_ln2, ln_m), -FracBits)
    ELSE RoundToFloat(1, BigSub(ln_m, k_ln2), -FracBits)

\* The significand of 1.0
Unit == BigShl(<<1>>, MantBits - 1)

\* math.log(x) for x > 0.0: ln (m 2^k) = k ln 2 + 2 atanh ((m - 1)/(m + 1))
\* for 1 <= m < 2
log(x) ==
    LogSum(x.exp + MantBits - 1,
           BigMul(BigFromInt(IF x.exp + MantBits - 1 < 0
                             THEN -(x.exp + MantBits - 1)
                             ELSE x.exp + MantBits - 1), Ln2),
           BigShl(Atanh(BigDivMod(BigShl(BigSub(x.mant, Unit), FracBits),
                                  BigAdd(x.mant, Unit)).q), 1))

\* math.log(x, base) is log(x) / log(base) in CPython
math_log(x, base) == FloatDiv(log(x), log(base))

\* Lines 33-34
STANDARD_A_FREQUENCY == 440
STANDARD_A_MIDI_NOTE == 69

\* Lines 91-103: (2.0 ** ((midi_note - 69) / 12.0)) * A_frequency
note_to_freq(midi_note) ==
    FloatMul(pow2(FloatDiv(float(midi_note - STANDARD_A_MIDI_NOTE),
                           float(12))),
             float(STANDARD_A_FREQUENCY))

\* Lines 105-121: int(12.0 * math.log(frequency/A_frequency, 2) + 69)
freq_to_note(frequency) ==
    int(FloatAdd(FloatMul(float(12),
                          math_log(FloatDiv(frequency,
                                            float(STANDARD_A_FREQUENCY)),
                                   float(2))),
                 float(STANDARD_A_MIDI_NOTE)))

\* ----------------------------------------------------------- class Sound

\* An argument left at None, and the test `if x:` of an int or a float
\* argument: None, 0 and 0.0 are false
None == <<>>
TruthyInt(x) == x # None /\ x[1] # 0
TruthyFloat(x) == x # None /\ x[1].mant # <<>>

\* The valid MIDI notes, and some frequencies in Hz
MidiNotes == 0..127
Frequencies == {27, 262, 440, 4186}

\* The midi_note and frequency arguments of Sound(...)
SoundArgs ==
    [midi_note : {None} \cup {<<n>> : n \in MidiNotes},
     frequency : {None} \cup {<<float(f)>> : f \in Frequencies}]

\* A call Sound(midi_note=..., frequency=...) about to run __init__
NewSound(a) ==
    [kind |-> "Sound", pc |-> "init", result |-> "none",
     midi_note |-> a.midi_note, frequency |-> a.frequency,
     self_midi_note |-> None, self_frequency |-> None]

\* A call Sound.freq_to_note(Sound.note_to_freq(midi_note))
NewConversion(n) ==
    [kind |-> "convert", pc |-> "init", result |-> "none",
     midi_note |-> n, frequency |-> None, note |-> None]

InitSound ==
    /\ playback_state = "STOPPED"
    /\ playback_paused_changed = FALSE
    /\ pb_set_pending = NonePending
    /\ recording_state = "STOPPED"
    /\ recording_paused_changed = FALSE
    /\ rec_set_pending = NonePending
    /\ \/ \E a \in SoundArgs :
             ses = [c \in Calls |-> IF c = 1 THEN NewSound(a) ELSE IdleCall]
       \/ \E n \in MidiNotes :
             ses = [c \in Calls |-> IF c = 1 THEN NewConversion(n)
                                    ELSE IdleCall]

\* Lines 69-89: Sound.__init__.  RuntimeError when both arguments are true
\* or neither is; else the true one is stored and the other attribute is
\* converted from it.
SoundInit(c) ==
    /\ ses[c].kind = "Sound" /\ ses[c].pc = "init"
    /\ LET s == ses[c]
       IN  Set(c,
             IF TruthyInt(s.midi_note) /\ TruthyFloat(s.frequency)
             THEN [s EXCEPT !.pc = "done", !.result = "error"]
             ELSE IF TruthyInt(s.midi_note)
             THEN [s EXCEPT !.pc = "done", !.result = "ok",
                            !.self_midi_note = s.midi_note,
                            !.self_frequency =
                                <<note_to_freq(s.midi_note[1])>>]
             ELSE IF TruthyFloat(s.frequency)
             THEN [s EXCEPT !.pc = "done", !.result = "ok",
                            !.self_frequency = s.frequency,
                            !.self_midi_note =
                                <<freq_to_note(s.frequency[1])>>]
             ELSE [s EXCEPT !.pc = "done", !.result = "error"])
    /\ UNCHANGED <<pb, rec>>

\* Lines 105-121: the note of a frequency that note_to_freq returned
Converted(s, frequency) ==
    [s EXCEPT !.pc = "done", !.result = "ok",
              !.frequency = <<frequency>>,
              !.note = <<freq_to_note(frequency)>>]

\* Lines 91-121: freq_to_note(note_to_freq(midi_note))
NoteToFreqToNote(c) ==
    /\ ses[c].kind = "convert" /\ ses[c].pc = "init"
    /\ Set(c, Converted(ses[c], note_to_freq(ses[c].midi_note)))
    /\ UNCHANGED <<pb, rec>>

NextSound ==
    \/ \E c \in Calls : SoundInit(c)
    \/ \E c \in Calls : NoteToFreqToNote(c)

SpecSound == InitSound /\ [][NextSound]_vars

\* C23: a Sound is constructed exactly when one of midi_note and frequency
\* is given, whatever the valid value given, and then holds the given value
\* unchanged and a value for the other attribute.
C23_ExactlyOneOfNoteAndFrequency ==
    \A c \in Calls : (ses[c].kind = "Sound" /\ ses[c].pc = "done") =>
        LET s == ses[c]
        IN  /\ s.result = "ok" <=> ((s.midi_note = None) # (s.frequency = None))
            /\ (s.result = "ok" /\ s.midi_note # None) =>
                   s.self_midi_note = s.midi_note /\ s.self_frequency # None
            /\ (s.result = "ok" /\ s.frequency # None) =>
                   s.self_frequency = s.frequency /\ s.self_midi_note # None

\* C24: converting a valid MIDI note to its frequency and the frequency
\* back to a note gives the note.
C24_NoteRoundTrip ==
    \A c \in Calls : (ses[c].kind = "convert" /\ ses[c].pc = "done") =>
        ses[c].note = <<ses[c].midi_note>>

\* C25: the two state machines are independent.  A step that writes the
\* playback state, sets or clears playback_paused_changed or takes a
\* pause_playback towards its set() leaves the recording state, its Event
\* and the pause_recording calls in flight as they were, and a step that
\* does one of these to the recording machine leaves the playback machine
\* as it was.
C25_MachinesIndependent ==
    [][/\ pb' # pb => UNCHANGED rec
       /\ rec' # rec => UNCHANGED pb]_vars

\* pause_playback has paused the playback of a pass-through session whose
\* recording goes on
C25_Witness ==
    /\ RecordPlayAt(1, "rp_loop")
    /\ ses[1].stream = "active"
    /\ playback_state = "PAUSED"
    /\ recording_state = "RECORDING"

\* ------------------------------------- concurrent calls of pause_*

\* pause_playback and pause_recording calls followed one by one, each on its
\* own thread: a call is issued, runs the `with ..._state_lock:` block in
\* one step, as the lock has it, and then sets the Event, unless it returned
\* from inside the block.
PauseCalls == {"pause_playback", "pause_recording"}

PauseAt(c, k, p) == ses[c].kind = k /\ ses[c].pc = p

PauseCall(c, k) ==
    /\ ses[c].pc = "idle"
    /\ \A e \in Calls : e < c => ses[e].pc # "idle"
    /\ Set(c, [ses[c] EXCEPT !.kind = k, !.pc = "pz_lock"])
    /\ UNCHANGED <<pb, rec>>

\* The call after its critical section: on its way to set() when it toggled
\* the state s, returned otherwise
AfterLock(r, s, active) ==
    IF s \in {"PAUSED", active}
    THEN [r EXCEPT !.pc = "pz_set", !.result = "toggled"]
    ELSE [r EXCEPT !.pc = "done", !.result = "unchanged"]

\* A pause_playback without the lock, racing with a call that has written
\* the state and not yet set the Event: both have read the same state and
\* written the same one
PausePlaybackUnlocked(c) ==
    /\ ses[c].kind = "pause_playback" /\ ses[c].pc = "pz_lock"
    /\ playback_state' =
          IF \E d \in Calls : ses[d].kind = "pause_playback"
                              /\ ses[d].pc = "pz_set"
          THEN playback_state
          ELSE TogglePlaybackState(playback_state)
    /\ ses' = [ses EXCEPT ![c] = AfterLock(ses[c], playback_state, "PLAYING")]
    /\ UNCHANGED <<rec, playback_paused_changed, pb_set_pending>>

\* Lines 702-708
PausePlaybackLocked(c) ==
    /\ PauseAt(c, "pause_playback", "pz_lock")
    /\ playback_state' = TogglePlaybackState(playback_state)
    /\ Set(c, AfterLock(ses[c], playback_state, "PLAYING"))
    /\ UNCHANGED <<rec, playback_paused_changed, pb_set_pending>>

\* Line 711
PausePlaybackEvent(c) ==
    /\ PauseAt(c, "pause_playback", "pz_set")
    /\ playback_paused_changed' = TRUE
    /\ ses' = [d \in Calls |->
                 IF d = c THEN [ses[c] EXCEPT !.pc = "done"]
                 ELSE IF WaitsOnPlayback(ses[d]) THEN Notified(ses[d])
                 ELSE ses[d]]
    /\ UNCHANGED <<rec, playback_state, pb_set_pending>>

\* Lines 725-731
PauseRecordingLocked(c) ==
    /\ PauseAt(c, "pause_recording", "pz_lock")
    /\ recording_state' = ToggleRecordingState(recording_state)
    /\ Set(c, AfterLock(ses[c], recording_state, "RECORDING"))
    /\ UNCHANGED <<pb, recording_paused_changed, rec_set_pending>>

\* Line 734
PauseRecordingEvent(c) ==
    /\ PauseAt(c, "pause_recording", "pz_set")
    /\ recording_paused_changed' = TRUE
    /\ ses' = [d \in Calls |->
                 IF d = c THEN [ses[c] EXCEPT !.pc = "done"]
                 ELSE IF WaitsOnPlayback(ses[d]) THEN ses[d]
                 ELSE Notified(ses[d])]
    /\ UNCHANGED <<pb, recording_state, rec_set_pending>>

\* The calls that have toggled the state
Toggled(k) == {c \in Calls : ses[c].kind = k /\ ses[c].result = "toggled"}

\* Playback and recording are started once, and then any pause_playback and
\* pause_recording calls run beside one another; nothing stops or starts a
\* machine that is active.
NextPauses ==
    \/ playback_state = "STOPPED" /\ OtherStartPlayback
    \/ recording_state = "STOPPED" /\ OtherStartRecording
    \/ \E c \in Calls, k \in PauseCalls : PauseCall(c, k)
    \/ \E c \in Calls : PausePlaybackLocked(c)
    \/ \E c \in Calls : PausePlaybackEvent(c)
    \/ \E c \in Calls : PauseRecordingLocked(c)
    \/ \E c \in Calls : PauseRecordingEvent(c)

SpecPauses == Init /\ [][NextPauses]_vars

\* C26: no toggle is lost.  With N calls of pause_playback having run
\* their critical section on an active playback, in whatever order and
\* however far each has got since, the state is PLAYING when N is even and
\* PAUSED when N is odd; the same holds of pause_recording.
C26_NoToggleLost ==
    /\ playback_state # "STOPPED" =>
          (playback_state = "PAUSED"
              <=> Cardinality(Toggled("pause_playback")) % 2 = 1)
    /\ recording_state # "STOPPED" =>
          (recording_state = "PAUSED"
              <=> Cardinality(Toggled("pause_recording")) % 2 = 1)

\* Every call followed has toggled the playback state, and none has reached
\* its set() yet
C26_Witness ==
    /\ Toggled("pause_playback") = Calls
    /\ \A c \in Calls : ses[c].pc = "pz_set"

\* ------------------------------------------------ pass-through, fair

\* One recordplay call without a duration, on a plugin that neither plays
\* nor records, under every control call of the two machines
NextPassThrough ==
    \/ Control
    \/ RecordingControl
    \/ RecordPlayCall(1, NoDuration)
    \/ RecordPlayCheckRecording(1)
    \/ RecordPlayClearPlayback(1)
    \/ RecordPlayClearRecording(1)
    \/ RecordPlayOpen(1)
    \/ RecordPlayOpenFails(1)
    \/ RecordPlayStartRecording(1)
    \/ RecordPlayStartPlayback(1)
    \/ RecordPlayLoop(1)
    \/ RecordPlayPause(1)
    \/ RecordPlayWait(1)
    \/ RecordPlayCloseStream(1)
    \/ RecordPlayFinallyPlayback(1)
    \/ RecordPlayFinallyRecording(1)
    \/ RecordPlayCallbackStep(1)

\* The caller's thread and the audio host take their steps, and a pause_*
\* call on its way to set() reaches it.  Nobody is bound to call
\* recordplay, stop_* or pause_*.
PassThroughFairness ==
    /\ WF_vars(RecordPlayStep(1))
    /\ WF_vars(RecordPlayCallbackStep(1))
    /\ \A w \in {"PAUSED", "PLAYING"} : WF_vars(PausePlaybackSet(w))
    /\ \A w \in {"PAUSED", "RECORDING"} : WF_vars(PauseRecordingSet(w))

SpecPassThrough == Init /\ [][NextPassThrough]_vars /\ PassThroughFairness

\* The worker of a pass-through session is in its loop (lines 675-681)
InPassThrough(c) ==
    /\ ses[c].kind = "recordplay"
    /\ ses[c].stream = "active"
    /\ ses[c].pc \in {"rp_loop", "rp_pause", "rp_wait", "rp_blocked"}

\* C27: a stop request on either machine ends a pass-through session.  When
\* the playback state or the recording state is STOPPED while the worker
\* is in its loop, the loop exits, the stream is closed and the call
\* returns with both states STOPPED.
C27_StopEndsPassThrough ==
    \A c \in Calls :
        (InPassThrough(c)
         /\ (playback_state = "STOPPED" \/ recording_state = "STOPPED"))
        ~> (/\ ses[c].pc = "done"
            /\ ses[c].stream = "closed"
            /\ playback_state = "STOPPED"
            /\ recording_state = "STOPPED")

\* C28: pausing loses no audio.  The blocks are numbered as the producer
\* reads or synthesizes them; while playback is not stopped, the blocks
\* waiting in the queue are those that follow the block last copied to the
\* device, in order and without a gap, and the block the producer holds is
\* the one that follows them.
C28_NoBlockSkipped ==
    \A c \in Calls : (ses[c].kind = "play" /\ playback_state # "STOPPED") =>
        LET s == ses[c]
        IN  /\ \A k \in 1..Len(s.q) : s.q[k].n = s.out + k
            /\ s.data # NoBlock => s.data.n = s.out + Len(s.q) + 1

\* The play call is between its start_playback (line 378) and its finally
\* clause (line 465)
InSession(c) ==
    /\ ses[c].kind = "play"
    /\ ses[c].pc \notin {"idle", "stop_prior", "clear", "start", "finally",
                         "done"}

\* C29: the teardown of a play call does not affect the session of a later
\* one.  While the later call is in its session, the final stop_playback of
\* the earlier call does not change the playback state, and when
\* stop_playback has been called on the earlier call's open stream, its
\* callback aborts at its next invocation and its producer loop leaves at
\* its next stop check.
C29_TeardownLeavesLaterSession ==
    [][\A e, c \in Calls : (e < c /\ InSession(c)) =>
          /\ (ses[e].pc = "finally" /\ ses'[e].pc = "done")
                => playback_state' = playback_state
          /\ (ses[e].kind = "play" /\ ses[e].stop_out >= 0) =>
                /\ ses[e].cb = "idle" => ses'[e].cb = "idle"
                /\ ses[e].pc = "lp_stop" => ses'[e].pc # "lp_put"]_vars

\* C30: a recording writes everything it captured.  When record has
\* returned after its loop ended on stop_recording or on the duration, the
\* blocks written to the file are the blocks the callback has put on the
\* queue, and the queue is empty.
C30_AllCapturedWritten ==
    \A c \in Calls :
        (RecordAt(c, "done") /\ ses[c].result \in {"ok", "empty"}) =>
            /\ ses[c].written = ses[c].enqueued
            /\ ses[c].q = <<>>

\* ------------------------------------------------ MediaMplayerPlugin

\* Player processes spawned in one behaviour
MaxPlayers == 3

\* self._mplayer is None
NoPlayer == 0

\* The commands tried; volume stands for those _exec has no branch for
Commands == {"loadfile", "loadlist", "pause", "stop", "quit", "volume"}

\* Line 155 (and 170)
Loads(cmd) == cmd \in {"loadfile", "loadlist"}

\* The plugin after __init__ (line 73): no handle, no process.  cmd, result,
\* wrote and event are those of the last _exec: the process whose stdin was
\* written, and the event posted on the bus.
NewMplayer ==
    [kind |-> "mplayer", pc |-> "idle", mplayer |-> NoPlayer,
     alive |-> {}, spawned |-> 0,
     cmd |-> "none", result |-> "none", wrote |-> NoPlayer, event |-> "none"]

InitMplayer ==
    /\ playback_state = "STOPPED"
    /\ playback_paused_changed = FALSE
    /\ pb_set_pending = NonePending
    /\ recording_state = "STOPPED"
    /\ recording_paused_changed = FALSE
    /\ rec_set_pending = NonePending
    /\ ses = [c \in Calls |-> IF c = 1 THEN NewMplayer ELSE IdleCall]

\* Lines 102-107: self._mplayer.quit() on a subprocess.Popen, which has no
\* method quit: AttributeError is raised and the bare except swallows it
QuitPrior(s) == s

\* Lines 109-123: subprocess.Popen starts a process and the handle is set
Popen(s) ==
    [s EXCEPT !.spawned = @ + 1, !.alive = @ \cup {s.spawned + 1},
              !.mplayer = s.spawned + 1]

\* Lines 101-123
InitPlayer(s) == Popen(IF s.mplayer # NoPlayer THEN QuitPrior(s) ELSE s)

\* Lines 170-182: the event posted after the write
EventOf(cmd) ==
    IF Loads(cmd) THEN "NewPlayingMediaEvent"
    ELSE IF cmd = "pause" THEN "MediaPauseEvent"
    ELSE IF cmd \in {"quit", "stop"} THEN "MediaStopEvent"
    ELSE "none"

\* Lines 166-182: the command is written to the handle's stdin; the flush
\* raises BrokenPipeError when the process has exited; quit terminates the
\* process and clears the handle
Write(s, cmd) ==
    IF s.mplayer \notin s.alive
    THEN [s EXCEPT !.cmd = cmd, !.result = "error", !.wrote = NoPlayer,
                   !.event = "none"]
    ELSE [s EXCEPT !.cmd = cmd, !.result = "ok", !.wrote = s.mplayer,
                   !.event = EventOf(cmd),
                   !.alive = IF cmd = "quit" THEN @ \ {s.mplayer} ELSE @,
                   !.mplayer = IF cmd = "quit" THEN NoPlayer ELSE @]

\* Lines 150-185: _exec(cmd, ...) without wait_for_response
Exec(c, cmd) ==
    /\ ses[c].kind = "mplayer"
    /\ Loads(cmd) => ses[c].spawned < MaxPlayers
    /\ Set(c, IF Loads(cmd) THEN Write(InitPlayer(ses[c]), cmd)
              ELSE IF ses[c].mplayer = NoPlayer
              THEN [ses[c] EXCEPT !.cmd = cmd, !.result = "not_running",
                                  !.wrote = NoPlayer, !.event = "none"]
              ELSE Write(ses[c], cmd))
    /\ UNCHANGED <<pb, rec>>

\* Lines 109-123: subprocess.Popen raises (the executable is gone): the
\* handle is left as it was
ExecPopenFails(c, cmd) ==
    /\ ses[c].kind = "mplayer"
    /\ Loads(cmd)
    /\ Set(c, [ses[c] EXCEPT !.cmd = cmd, !.result = "error",
                             !.wrote = NoPlayer, !.event = "none"])
    /\ UNCHANGED <<pb, rec>>

\* A player process exits by itself or is killed from outside
PlayerExits(c, p) ==
    /\ ses[c].kind = "mplayer"
    /\ p \in ses[c].alive
    /\ Set(c, [ses[c] EXCEPT !.alive = @ \ {p}])
    /\ UNCHANGED <<pb, rec>>

NextMplayer ==
    \/ \E cmd \in Commands : Exec(1, cmd)
    \/ \E cmd \in Commands : ExecPopenFails(1, cmd)
    \/ \E p \in 1..MaxPlayers : PlayerExits(1, p)

SpecMplayer == InitMplayer /\ [][NextMplayer]_vars

\* C31: the plugin keeps at most one player process alive, a quit that
\* succeeded leaves no handle, and a command other than loadfile and loadlist
\* given without a handle fails with 'MPlayer is not running', writes to no
\* process and posts no event.
C31_OnePlayerProcess ==
    /\ [](\A c \in Calls : ses[c].kind = "mplayer" =>
             /\ Cardinality(ses[c].alive) <= 1
             /\ (ses[c].cmd = "quit" /\ ses[c].result = "ok")
                    => ses[c].mplayer = NoPlayer)
    /\ [][\A c \in Calls, cmd \in Commands :
             (Exec(c, cmd) /\ ~Loads(cmd) /\ ses[c].mplayer = NoPlayer) =>
                 /\ ses'[c].result = "not_running"
                 /\ ses'[c].wrote = NoPlayer
                 /\ ses'[c].event = "none"
                 /\ ses'[c].alive = ses[c].alive]_vars

====
